---- MODULE Spec2Model ----
(***************************************************************************)
(* A model of the GLB container builders (blender_to_glb_simple.py and     *)
(* glb_exporter.py), the embedded-texture append of                        *)
(* glb_exporter_cropped.py, the texture registry                           *)
(* (external_texture_manager.py) and the texture cropper                   *)
(* (texture_cropper.py) with its adoption gate.                            *)
(*                                                                         *)
(* Bytes are integers 0..255, byte strings are sequences of bytes.  A      *)
(* numpy array is a record [dtype, ndim, shape0, shape1, data] whose data  *)
(* is the sequence of the elements' bit patterns in C order.               *)
(***************************************************************************)
EXTENDS Integers, Sequences, FiniteSets, TLC

VARIABLES
    variant,        \* which SimpleGLBGenerator class the instance is: "simple" | "external"
    pc,             \* position of the caller: "idle" | "mesh" | "prim" | "done" | "raised"
    buffer_data,    \* self.buffer_data (BytesIO written sequentially: tell() = length)
    accessors,      \* self.accessors
    buffer_views,   \* self.buffer_views
    images,         \* self.images      (glb_exporter.py only)
    textures,       \* self.textures    (glb_exporter.py only)
    samplers,       \* self.samplers    (glb_exporter.py only)
    materials,      \* self.materials: the number of entries of mesh_materials
    mesh_prims,     \* mesh_json["primitives"] of the create_glb call in progress
    cur_prim,       \* prim_json of the _process_primitive call in progress
    appended,       \* history: the array handed over for each accessor, in order
    gltf,           \* the document emitted by the last create_glb
    glb,            \* the byte stream returned by the last create_glb
    \* ExternalTextureManager
    texture_registry,    \* self.texture_registry: hash -> (filename, relative_uri)
    asset_texture_sets,  \* self.asset_texture_sets: asset_name -> {hash -> (filename, uri)}
    files,               \* the textures directory: filename -> bytes stored
    writes,              \* history: completed writes of a texture file, per content hash
    write_failures,      \* history: number of writes the file system has failed
    returned,            \* history: (image_data, result) of every call that returned
    in_flight,           \* per thread, the register_texture call it is in and its position
    \* TextureCropper and its two call sites
    image_size,          \* (width, height) of the texture image
    uv_data,             \* the primitive's UV array as handed in, in 1/UVDen units
    pixel_padding,       \* crop_texture's pixel_padding argument
    min_size,            \* crop_texture's min_size argument
    crop_pc,             \* "input", then "cropped", "remapped", "exported" or "processed"
    crop_calls,          \* history: invocations of crop_texture
    crop_out,            \* what crop_texture returned: cropped size and pixel_bounds
    texcoord,            \* the UV array after remap / primitive['attributes']['TEXCOORD_0']
    material_texture,    \* the texture the material ends up referencing
    processed,           \* what process_texture_with_cropping returned
    crop_fault,          \* history: the exception the crop step raised, "none" without one
    uv_padding,          \* calculate_bounds' padding argument, a fraction (num, den)
    bounds_box,           \* what calculate_bounds returned, in 1/(UVDen * den) units
    \* export_mesh_to_glb of glb_exporter.py
    export_pc,           \* "idle", then "materials", "write" and "returned"
    export_asset_name,   \* the asset_name argument
    mesh_materials,      \* materials_data of the call: per material the texture index, or NoIndex
    output_files,        \* the output directory: path -> bytes stored
    export_result,       \* what the call returned: "none" until then, else TRUE or FALSE
    export_fault         \* history: the exception that ended the call, "none" without one

glbVars == <<variant, pc, buffer_data, accessors, buffer_views, images, textures,
             samplers, materials, mesh_prims, cur_prim, appended, gltf, glb>>

regVars == <<texture_registry, asset_texture_sets, files, writes, write_failures, returned,
             in_flight>>

cropVars == <<image_size, uv_data, pixel_padding, min_size, crop_pc, crop_calls, crop_out,
              texcoord, material_texture, processed, crop_fault, uv_padding, bounds_box>>

meshVars == <<export_pc, export_asset_name, mesh_materials, output_files, export_result,
              export_fault>>

notGLB == <<regVars, cropVars, meshVars>>

vars == <<glbVars, regVars, cropVars, meshVars>>

------------------------------------------------------------------------------
(* Bounds of the model *)

MaxViews == 2         \* buffer views one generator accumulates
MaxPrims == 1         \* primitives handed to one create_glb call
MaxMaterials == 1     \* entries of mesh_materials
MaxJsonLen == 5       \* length of the serialized JSON text (it holds the caller's mesh name)
MaxTexLen == 3        \* byte length of an embedded (cropped) texture
MaxWriteFailures == 1 \* writes of a texture file that the file system fails
MaxUVs == 2           \* UV pairs of one primitive

------------------------------------------------------------------------------
(* Byte strings *)

Repeat(b, n) == [i \in 1..n |-> b]

\* byte j (0-based) of the little-endian encoding of v (v < 2^31)
ByteOf(v, j) == IF j >= 4 THEN 0 ELSE (v \div (256 ^ j)) % 256

\* struct.pack('<I', v)
pack_U32(v) == [i \in 1..4 |-> ByteOf(v, i - 1)]

\* struct.unpack_from('<I', s, pos) with pos 0-based; -1 when the stream is too short
unpack_U32(s, pos) ==
    IF pos + 4 > Len(s) \/ s[pos + 4] >= 128 THEN -1
    ELSE s[pos + 1] + 256 * s[pos + 2] + 65536 * s[pos + 3] + 16777216 * s[pos + 4]

\* (4 - (n % 4)) % 4
PaddingNone(n) == 0
Padding(n) == (4 - (n % 4)) % 4

------------------------------------------------------------------------------
(* glTF constants *)

GLTF_MAGIC == 1179937895
GLTF_VERSION == 2
JSON_CHUNK_TYPE == 1313821514
BIN_CHUNK_TYPE == 5130562
ARRAY_BUFFER == 34962
ELEMENT_ARRAY_BUFFER == 34963
FLOAT == 5126
UNSIGNED_INT == 5125
NoTarget == 0

------------------------------------------------------------------------------
(* numpy arrays *)

DTypes == {"int8", "uint8", "int16", "uint16", "uint32", "float32", "float64"}

itemsize(dtype) ==
    CASE dtype \in {"int8", "uint8"} -> 1
      [] dtype \in {"int16", "uint16"} -> 2
      [] dtype \in {"uint32", "float32"} -> 4
      [] OTHER -> 8

NumElems(a) == IF a.ndim = 1 THEN a.shape0 ELSE a.shape0 * a.shape1

\* data.nbytes
nbytes(a) == NumElems(a) * itemsize(a.dtype)

\* data.tobytes(): the elements in C order, each little-endian on itemsize bytes
tobytes(a) ==
    [i \in 1..nbytes(a) |->
        ByteOf(a.data[((i - 1) \div itemsize(a.dtype)) + 1], (i - 1) % itemsize(a.dtype))]

\* an input array of the given type and shape; its elements are 1, 2, ... (one-byte
\* types) or 257, 514, ... (wider types: two non-zero bytes each)
MkArray(dtype, ndim, shape0, shape1) ==
    [dtype |-> dtype, ndim |-> ndim, shape0 |-> shape0, shape1 |-> shape1,
     data |-> [k \in 1..(IF ndim = 1 THEN shape0 ELSE shape0 * shape1) |->
                  IF itemsize(dtype) = 1 THEN k ELSE 257 * k]]

NoArray == [dtype |-> "none", ndim |-> 0, shape0 |-> 0, shape1 |-> 0, data |-> <<>>]

\* the positions of _create_minimal_mesh: [[0,0,0],[1,0,0],[0,1,0]] as float32 (1.0 = 0x3F800000)
MinimalTriangle ==
    [dtype |-> "float32", ndim |-> 2, shape0 |-> 3, shape1 |-> 3,
     data |-> <<0, 0, 0, 1065353216, 0, 0, 0, 1065353216, 0>>]

------------------------------------------------------------------------------
(* The accessor/bufferView builders *)

\* dtype_map.get(data.dtype, 5126) of _add_accessor
dtype_map_double(dtype) ==
    CASE dtype = "int8" -> 5120
      [] dtype = "uint8" -> 5121
      [] dtype = "int16" -> 5122
      [] dtype = "uint16" -> 5123
      [] dtype = "uint32" -> 5125
      [] dtype = "float32" -> 5126
      [] OTHER -> 5130
dtype_map(dtype) ==
    CASE dtype = "int8" -> 5120
      [] dtype = "uint8" -> 5121
      [] dtype = "int16" -> 5122
      [] dtype = "uint16" -> 5123
      [] dtype = "uint32" -> 5125
      [] dtype = "float32" -> 5126
      [] OTHER -> 5126

\* TYPE_STRINGS.get(num_components, "SCALAR")
TYPE_STRINGS(num_components) ==
    CASE num_components = 1 -> "SCALAR"
      [] num_components = 2 -> "VEC2"
      [] num_components = 3 -> "VEC3"
      [] num_components = 4 -> "VEC4"
      [] num_components = 9 -> "MAT3"
      [] num_components = 16 -> "MAT4"
      [] OTHER -> "SCALAR"

VertexAttributes ==
    {"POSITION", "NORMAL", "TANGENT", "TEXCOORD_0", "TEXCOORD_1", "COLOR_0",
     "JOINTS_0", "WEIGHTS_0"}

\* the generator's lists as one value
Gen == [buffer_data |-> buffer_data, buffer_views |-> buffer_views,
        accessors |-> accessors, appended |-> appended]

SetGen(g) ==
    /\ buffer_data' = g.buffer_data
    /\ buffer_views' = g.buffer_views
    /\ accessors' = g.accessors
    /\ appended' = g.appended

\* blender_to_glb_simple.py, SimpleGLBGenerator._add_accessor: the generator after the call
\* (the index returned is Len(g.accessors), the new accessor's)
_add_accessor_at_front(g, data, attribute_type) ==
    LET written == g.buffer_data \o tobytes(data)
        accessor == [bufferView |-> 0,
                     byteOffset |-> 0,
                     componentType |-> dtype_map(data.dtype),
                     count |-> data.shape0,
                     type |-> IF data.ndim = 1 THEN "SCALAR" ELSE TYPE_STRINGS(data.shape1),
                     minmax |-> attribute_type = "POSITION" /\ data.ndim = 2 /\ data.shape1 = 3]
        buffer_view == [byteOffset |-> Len(g.buffer_data),
                        byteLength |-> nbytes(data),
                        target |-> IF attribute_type \in VertexAttributes THEN ARRAY_BUFFER
                                   ELSE IF attribute_type = "INDICES" THEN ELEMENT_ARRAY_BUFFER
                                   ELSE NoTarget]
    IN  [buffer_data |-> written \o Repeat(0, Padding(Len(written))),
         buffer_views |-> <<buffer_view>> \o g.buffer_views,
         accessors |-> <<accessor>> \o g.accessors,
         appended |-> <<data>> \o g.appended]
_add_accessor(g, data, attribute_type) ==
    LET written == g.buffer_data \o tobytes(data)
        accessor == [bufferView |-> Len(g.buffer_views),
                     byteOffset |-> 0,
                     componentType |-> dtype_map(data.dtype),
                     count |-> data.shape0,
                     type |-> IF data.ndim = 1 THEN "SCALAR" ELSE TYPE_STRINGS(data.shape1),
                     minmax |-> attribute_type = "POSITION" /\ data.ndim = 2 /\ data.shape1 = 3]
        buffer_view == [byteOffset |-> Len(g.buffer_data),
                        byteLength |-> nbytes(data),
                        target |-> IF attribute_type \in VertexAttributes THEN ARRAY_BUFFER
                                   ELSE IF attribute_type = "INDICES" THEN ELEMENT_ARRAY_BUFFER
                                   ELSE NoTarget]
    IN  [buffer_data |-> written \o Repeat(0, Padding(Len(written))),
         buffer_views |-> Append(g.buffer_views, buffer_view),
         accessors |-> Append(g.accessors, accessor),
         appended |-> Append(g.appended, data)]

\* glb_exporter.py, add_primitive_data raises IndexError at data.shape[1] of a 1-D array
add_primitive_data_raises(data, accessor_type) ==
    accessor_type = "VEC3" /\ data.ndim = 1

\* glb_exporter.py, SimpleGLBGenerator.add_primitive_data (with add_buffer_view and
\* add_accessor): the generator after the call; when the call raises, the bytes and the
\* buffer view are already in place and no accessor is added
add_primitive_data_next_view(g, data, component_type, accessor_type, target) ==
    LET aligned == g.buffer_data \o Repeat(0, Padding(Len(g.buffer_data)))
        view == [byteOffset |-> Len(aligned), byteLength |-> Len(tobytes(data)),
                 target |-> target]
        accessor == [bufferView |-> Len(g.buffer_views) + 1,
                     byteOffset |-> 0,
                     componentType |-> component_type,
                     count |-> data.shape0,
                     type |-> accessor_type,
                     minmax |-> accessor_type = "VEC3" /\ data.shape1 = 3]
    IN  [buffer_data |-> aligned \o tobytes(data),
         buffer_views |-> Append(g.buffer_views, view),
         accessors |-> IF add_primitive_data_raises(data, accessor_type) THEN g.accessors
                       ELSE Append(g.accessors, accessor),
         appended |-> IF add_primitive_data_raises(data, accessor_type) THEN g.appended
                      ELSE Append(g.appended, data)]
add_primitive_data(g, data, component_type, accessor_type, target) ==
    LET aligned == g.buffer_data \o Repeat(0, Padding(Len(g.buffer_data)))
        view == [byteOffset |-> Len(aligned), byteLength |-> Len(tobytes(data)),
                 target |-> target]
        accessor == [bufferView |-> Len(g.buffer_views),
                     byteOffset |-> 0,
                     componentType |-> component_type,
                     count |-> data.shape0,
                     type |-> accessor_type,
                     minmax |-> accessor_type = "VEC3" /\ data.shape1 = 3]
    IN  [buffer_data |-> aligned \o tobytes(data),
         buffer_views |-> Append(g.buffer_views, view),
         accessors |-> IF add_primitive_data_raises(data, accessor_type) THEN g.accessors
                       ELSE Append(g.accessors, accessor),
         appended |-> IF add_primitive_data_raises(data, accessor_type) THEN g.appended
                      ELSE Append(g.appended, data)]

------------------------------------------------------------------------------
(* Serialisation *)

\* json.dumps(gltf, separators=(',', ':')).encode('utf-8') of the given length: a JSON
\* object, which starts with '{', ends with '}' and holds no trailing space
JsonText(n) == [i \in 1..n |-> IF i = 1 THEN 123 ELSE IF i = n THEN 125 ELSE 34]

\* blender_to_glb_simple.py: total_length of _create_glb_binary
total_length_drops_header(json_bytes_len, buffer_len) ==
    (8 + json_bytes_len) + (IF buffer_len > 0 THEN 8 + buffer_len ELSE 0)
total_length_simple(json_bytes_len, buffer_len) ==
    12 + (8 + json_bytes_len) + (IF buffer_len > 0 THEN 8 + buffer_len ELSE 0)

\* blender_to_glb_simple.py, SimpleGLBGenerator._create_glb_binary
_create_glb_binary_simple(json_len, buffer) ==
    LET json_bytes == JsonText(json_len) \o Repeat(32, Padding(json_len))
        padded_buffer == buffer \o Repeat(0, Padding(Len(buffer)))
    IN  pack_U32(GLTF_MAGIC) \o pack_U32(GLTF_VERSION)
          \o pack_U32(total_length_simple(Len(json_bytes), Len(buffer)))
          \o pack_U32(Len(json_bytes)) \o pack_U32(JSON_CHUNK_TYPE) \o json_bytes
          \o (IF buffer # <<>>
              THEN pack_U32(Len(padded_buffer)) \o pack_U32(BIN_CHUNK_TYPE) \o padded_buffer
              ELSE <<>>)

\* glb_exporter.py: total_length of _create_glb_binary (both lengths are the padded ones)
total_length_ext(json_bytes_len, buffer_len) == 12 + 8 + json_bytes_len + 8 + buffer_len

\* as _create_glb_binary_ext, the JSON text padded with NUL bytes instead of spaces
create_glb_binary_nul_padded_json(json_len, buffer) ==
    LET json_bytes == JsonText(json_len) \o Repeat(0, Padding(json_len))
        padded == buffer \o Repeat(0, Padding(Len(buffer)))
    IN  <<103, 108, 84, 70>> \o pack_U32(2)
          \o pack_U32(total_length_ext(Len(json_bytes), Len(padded)))
          \o pack_U32(Len(json_bytes)) \o pack_U32(JSON_CHUNK_TYPE) \o json_bytes
          \o pack_U32(Len(padded)) \o pack_U32(BIN_CHUNK_TYPE) \o padded

\* glb_exporter.py, SimpleGLBGenerator._create_glb_binary; b'glTF' is 0x67 0x6C 0x54 0x46
_create_glb_binary_ext(json_len, buffer) ==
    LET json_bytes == JsonText(json_len) \o Repeat(32, Padding(json_len))
        padded == buffer \o Repeat(0, Padding(Len(buffer)))
    IN  <<103, 108, 84, 70>> \o pack_U32(2)
          \o pack_U32(total_length_ext(Len(json_bytes), Len(padded)))
          \o pack_U32(Len(json_bytes)) \o pack_U32(JSON_CHUNK_TYPE) \o json_bytes
          \o pack_U32(Len(padded)) \o pack_U32(BIN_CHUNK_TYPE) \o padded

------------------------------------------------------------------------------
(* Inputs *)

\* the (attribute name, array) pairs a caller hands over: the exporters' own (float32
\* Nx3 and Nx2) and arrays of other element types, shapes and byte lengths (3, 6, 2 and
\* 0 bytes, an unrecognised element type, a trailing dimension of 5)
AttributeInputs ==
    {<<"POSITION", MkArray("float32", 2, 1, 3)>>,
     <<"POSITION", MkArray("float32", 1, 3, 1)>>,
     <<"POSITION", MkArray("uint8", 2, 1, 3)>>,
     <<"TEXCOORD_0", MkArray("float32", 2, 2, 2)>>,
     <<"TEXCOORD_0", MkArray("uint16", 2, 1, 3)>>,
     <<"_CUSTOM", MkArray("int16", 1, 1, 1)>>,
     <<"_CUSTOM", MkArray("float64", 1, 1, 1)>>,
     <<"_CUSTOM", MkArray("float32", 2, 1, 5)>>,
     <<"_CUSTOM", MkArray("uint32", 1, 0, 1)>>}

\* index arrays (the exporters pass uint32), or None
IndexArrays ==
    {MkArray(d, 1, 3, 1) : d \in {"uint16", "uint32"}} \cup {NoArray}

NoMaterial == -1
NoIndex == -1

NoPrim == [attributes |-> <<>>, indices |-> NoIndex, material |-> NoMaterial]

NoDoc == [meshes |-> <<>>, accessors |-> <<>>, bufferViews |-> <<>>, buffers |-> <<>>,
          materials |-> 0, json_len |-> 0]

HasAttribute(prim, name) == \E i \in 1..Len(prim.attributes) : prim.attributes[i][1] = name

------------------------------------------------------------------------------
(* The generators, step by step *)

InitGLB ==
    /\ variant \in {"simple", "external"}
    /\ pc = "idle"
    /\ buffer_data = <<>>
    /\ accessors = <<>>
    /\ buffer_views = <<>>
    /\ images = <<>>
    /\ textures = <<>>
    /\ samplers = <<>>
    /\ materials = 0
    /\ mesh_prims = <<>>
    /\ cur_prim = NoPrim
    /\ appended = <<>>
    /\ gltf = NoDoc
    /\ glb = <<>>

\* blender_to_glb_simple.py create_glb, lines 101-124: the reset and the materials
Simple_create_glb_begin(materials_data) ==
    /\ variant = "simple"
    /\ pc \in {"idle", "done"}
    /\ pc' = "mesh"
    /\ buffer_data' = <<>>
    /\ accessors' = <<>>
    /\ buffer_views' = <<>>
    /\ appended' = <<>>
    /\ materials' = materials_data
    /\ mesh_prims' = <<>>
    /\ cur_prim' = NoPrim
    /\ gltf' = NoDoc
    /\ glb' = <<>>
    /\ UNCHANGED <<variant, images, textures, samplers>>

\* glb_exporter.py create_glb, lines 197-228: no reset of the lists or the buffer
Ext_create_glb_begin(materials_data) ==
    /\ variant = "external"
    /\ pc \in {"idle", "done", "raised"}
    /\ pc' = "mesh"
    /\ materials' = materials_data
    /\ mesh_prims' = <<>>
    /\ cur_prim' = NoPrim
    /\ gltf' = NoDoc
    /\ glb' = <<>>
    /\ UNCHANGED <<variant, buffer_data, accessors, buffer_views, appended, images,
                   textures, samplers>>

\* the loop of _process_mesh / create_glb takes the next primitive
process_primitive_begin ==
    /\ pc = "mesh"
    /\ Len(mesh_prims) < MaxPrims
    /\ pc' = "prim"
    /\ cur_prim' = NoPrim
    /\ UNCHANGED <<variant, buffer_data, accessors, buffer_views, images, textures,
                   samplers, materials, mesh_prims, appended, gltf, glb>>

\* blender_to_glb_simple.py _process_primitive, lines 177-181: one attribute of the loop
Simple_process_attribute(attr_name, data) ==
    /\ variant = "simple"
    /\ pc = "prim"
    /\ ~HasAttribute(cur_prim, attr_name)
    /\ Len(buffer_views) < MaxViews
    /\ SetGen(_add_accessor(Gen, data, attr_name))
    /\ cur_prim' = [cur_prim EXCEPT
                      !.attributes = Append(@, <<attr_name, Len(accessors)>>)]
    /\ UNCHANGED <<variant, pc, images, textures, samplers, materials, mesh_prims, gltf, glb>>

\* blender_to_glb_simple.py _process_primitive, lines 183-197
Simple_process_primitive_end(indices, material) ==
    /\ variant = "simple"
    /\ pc = "prim"
    /\ pc' = "mesh"
    /\ cur_prim' = NoPrim
    /\ IF cur_prim.attributes = <<>>
       THEN UNCHANGED <<buffer_data, accessors, buffer_views, appended, mesh_prims>>
       ELSE /\ indices # NoArray => Len(buffer_views) < MaxViews
            /\ IF indices # NoArray
               THEN SetGen(_add_accessor(Gen, indices, "INDICES"))
               ELSE UNCHANGED <<buffer_data, accessors, buffer_views, appended>>
            /\ mesh_prims' = Append(mesh_prims,
                   [attributes |-> cur_prim.attributes,
                    indices |-> IF indices # NoArray THEN Len(accessors) ELSE NoIndex,
                    material |-> IF material = NoMaterial THEN NoMaterial
                                 ELSE IF materials > 0 THEN material % materials ELSE 0])
    /\ UNCHANGED <<variant, images, textures, samplers, materials, gltf, glb>>

\* blender_to_glb_simple.py create_glb, lines 129-152 (with _create_minimal_mesh)
Simple_create_glb_finish(json_len) ==
    /\ variant = "simple"
    /\ pc = "mesh"
    /\ LET minimal == mesh_prims = <<>>
           g == IF minimal THEN _add_accessor(Gen, MinimalTriangle, "POSITION") ELSE Gen
           meshes == IF minimal
                     THEN <<[primitives |->
                               <<[attributes |-> <<<<"POSITION", Len(accessors)>>>>,
                                  indices |-> NoIndex, material |-> NoMaterial]>>]>>
                     ELSE <<[primitives |-> mesh_prims]>>
           buffer_length == Len(g.buffer_data)
           buffer == IF buffer_length > 0 THEN g.buffer_data ELSE Repeat(0, 4)
       IN  /\ SetGen([g EXCEPT !.buffer_data = buffer])
           /\ gltf' = [meshes |-> meshes, accessors |-> g.accessors,
                       bufferViews |-> g.buffer_views,
                       buffers |-> <<[byteLength |->
                                        IF buffer_length > 0 THEN buffer_length ELSE 4]>>,
                       materials |-> materials, json_len |-> json_len]
           /\ glb' = _create_glb_binary_simple(json_len, buffer)
    /\ pc' = "done"
    /\ UNCHANGED <<variant, images, textures, samplers, materials, mesh_prims, cur_prim>>

\* the call the attribute loop of glb_exporter.py _process_primitive makes (lines 258-266)
\* on a generator value; other attribute names are skipped
Ext_attribute_call(g, attr_name, data) ==
    IF attr_name \in {"POSITION", "NORMAL"}
    THEN add_primitive_data(g, data, FLOAT, "VEC3", ARRAY_BUFFER)
    ELSE IF attr_name = "TEXCOORD_0"
    THEN add_primitive_data(g, data, FLOAT, "VEC2", ARRAY_BUFFER)
    ELSE g

Ext_attribute_raises(attr_name, data) ==
    attr_name \in {"POSITION", "NORMAL"} /\ add_primitive_data_raises(data, "VEC3")

\* glb_exporter.py _process_primitive, lines 256-267: one attribute of the loop; an
\* exception leaves create_glb with the bytes and the buffer view already appended
Ext_process_attribute(attr_name, data) ==
    /\ variant = "external"
    /\ pc = "prim"
    /\ ~HasAttribute(cur_prim, attr_name)
    /\ Len(buffer_views) < MaxViews
    /\ SetGen(Ext_attribute_call(Gen, attr_name, data))
    /\ IF Ext_attribute_raises(attr_name, data)
       THEN /\ pc' = "raised"
            /\ cur_prim' = NoPrim
            /\ mesh_prims' = <<>>
       ELSE /\ pc' = pc
            /\ cur_prim' = IF attr_name \in {"POSITION", "NORMAL", "TEXCOORD_0"}
                           THEN [cur_prim EXCEPT
                                   !.attributes = Append(@, <<attr_name, Len(accessors)>>)]
                           ELSE cur_prim
            /\ UNCHANGED mesh_prims
    /\ UNCHANGED <<variant, images, textures, samplers, materials, gltf, glb>>

\* glb_exporter.py _process_primitive, lines 269-279, and create_glb, lines 232-233
Ext_process_primitive_end(indices, material) ==
    /\ variant = "external"
    /\ pc = "prim"
    /\ pc' = "mesh"
    /\ cur_prim' = NoPrim
    /\ indices # NoArray => Len(buffer_views) < MaxViews
    /\ IF indices # NoArray
       THEN SetGen(add_primitive_data(Gen, indices, UNSIGNED_INT, "SCALAR",
                                      ELEMENT_ARRAY_BUFFER))
       ELSE UNCHANGED <<buffer_data, accessors, buffer_views, appended>>
    /\ mesh_prims' = Append(mesh_prims,
           [attributes |-> cur_prim.attributes,
            indices |-> IF indices # NoArray THEN Len(accessors) ELSE NoIndex,
            material |-> material])
    /\ UNCHANGED <<variant, images, textures, samplers, materials, gltf, glb>>

\* glb_exporter.py create_glb, lines 235-246
Ext_create_glb_finish(json_len) ==
    /\ variant = "external"
    /\ pc = "mesh"
    /\ gltf' = [meshes |-> <<[primitives |-> mesh_prims]>>, accessors |-> accessors,
                bufferViews |-> buffer_views,
                buffers |-> <<[byteLength |-> Len(buffer_data)]>>,
                materials |-> materials, json_len |-> json_len]
    /\ glb' = _create_glb_binary_ext(json_len, buffer_data)
    /\ pc' = "done"
    /\ UNCHANGED <<variant, buffer_data, accessors, buffer_views, appended, images,
                   textures, samplers, materials, mesh_prims, cur_prim>>

\* the encoded image bytes of a cropped texture (a PNG starts with 0x89)
TextureBytes(n) == Repeat(137, n)

\* glb_exporter_cropped.py, _add_texture_to_glb_cropped: the generator is the one imported
\* from glb_exporter.py (the only class with images, samplers and textures)
add_texture_to_glb_cropped(cropped_data) ==
    /\ variant = "external"
    /\ pc = "idle"
    /\ Len(buffer_views) < MaxViews
    /\ LET aligned == buffer_data \o Repeat(0, Padding(Len(buffer_data)))
       IN  /\ buffer_data' = aligned \o cropped_data
           /\ buffer_views' = Append(buffer_views,
                  [byteOffset |-> Len(aligned), byteLength |-> Len(cropped_data),
                   target |-> NoTarget])
    /\ images' = Append(images, [bufferView |-> Len(buffer_views)])
    /\ samplers' = Append(samplers, [wrapS |-> 10497])
    /\ textures' = Append(textures, [source |-> Len(images), sampler |-> Len(samplers)])
    /\ UNCHANGED <<variant, pc, accessors, appended, materials, mesh_prims, cur_prim,
                   gltf, glb>>

NextGLB ==
    \/ \E m \in 0..MaxMaterials : Simple_create_glb_begin(m) /\ UNCHANGED notGLB
    \/ \E m \in 0..MaxMaterials : Ext_create_glb_begin(m) /\ UNCHANGED notGLB
    \/ process_primitive_begin /\ UNCHANGED notGLB
    \/ \E in \in AttributeInputs : Simple_process_attribute(in[1], in[2]) /\ UNCHANGED notGLB
    \/ \E in \in AttributeInputs : Ext_process_attribute(in[1], in[2]) /\ UNCHANGED notGLB
    \/ \E i \in IndexArrays, m \in {NoMaterial} \cup 0..MaxMaterials :
          Simple_process_primitive_end(i, m) /\ UNCHANGED notGLB
    \/ \E i \in IndexArrays, m \in {NoMaterial} \cup 0..MaxMaterials :
          Ext_process_primitive_end(i, m) /\ UNCHANGED notGLB
    \/ \E n \in 2..MaxJsonLen : Simple_create_glb_finish(n) /\ UNCHANGED notGLB
    \/ \E n \in 2..MaxJsonLen : Ext_create_glb_finish(n) /\ UNCHANGED notGLB
    \/ \E n \in 1..MaxTexLen : add_texture_to_glb_cropped(TextureBytes(n)) /\ UNCHANGED notGLB


\* the attributes the exporters build for a mesh: float32 positions, normals and UVs
MeshAttributeInputs ==
    {<<"POSITION", MkArray("float32", 2, 1, 3)>>,
     <<"NORMAL", MkArray("float32", 2, 1, 3)>>,
     <<"TEXCOORD_0", MkArray("float32", 2, 1, 2)>>}

\* create_glb of both generators on the exporters' own attributes and uint32 indices
NextPrimitive ==
    \/ \E m \in 0..MaxMaterials : Simple_create_glb_begin(m) /\ UNCHANGED notGLB
    \/ \E m \in 0..MaxMaterials : Ext_create_glb_begin(m) /\ UNCHANGED notGLB
    \/ process_primitive_begin /\ UNCHANGED notGLB
    \/ \E in \in MeshAttributeInputs :
          Simple_process_attribute(in[1], in[2]) /\ UNCHANGED notGLB
    \/ \E in \in MeshAttributeInputs :
          Ext_process_attribute(in[1], in[2]) /\ UNCHANGED notGLB
    \/ \E i \in {MkArray("uint32", 1, 3, 1), NoArray}, m \in {NoMaterial} \cup 0..MaxMaterials :
          Simple_process_primitive_end(i, m) /\ UNCHANGED notGLB
    \/ \E i \in {MkArray("uint32", 1, 3, 1), NoArray}, m \in {NoMaterial} \cup 0..MaxMaterials :
          Ext_process_primitive_end(i, m) /\ UNCHANGED notGLB
    \/ \E n \in 2..MaxJsonLen : Simple_create_glb_finish(n) /\ UNCHANGED notGLB
    \/ \E n \in 2..MaxJsonLen : Ext_create_glb_finish(n) /\ UNCHANGED notGLB

------------------------------------------------------------------------------
(* ExternalTextureManager (external_texture_manager.py) *)

\* encoded image files: two PNG-like byte strings and a JPEG-like one
Contents == {<<137, 80>>, <<137, 81>>}

\* hashlib.sha256(image_data).hexdigest()[:16]: one value per content
texture_hash(image_data) == 256 * image_data[1] + image_data[2]

Hashes == {texture_hash(c) : c \in Contents}

\* (original_name, mime_type) as callers pass them
NamedAs == {<<"Skin_Diffuse", "image/png">>, <<"wood grain", "image/bmp">>}
None == "None"
AssetNames == {None, "hero", "villain 2"}

\* ext_map.get(mime_type, '.jpg')
ext_map(mime_type) ==
    CASE mime_type = "image/jpeg" -> ".jpg"
      [] mime_type = "image/png" -> ".png"
      [] mime_type = "image/webp" -> ".webp"
      [] mime_type = "image/tiff" -> ".tiff"
      [] OTHER -> ".jpg"

\* the name without '_Diffuse'/'_diffuse', keeping only alphanumerics, '-' and '_'
clean_name_of(original_name) ==
    CASE original_name = "Skin_Diffuse" -> "Skin"
      [] original_name = "wood grain" -> "woodgrain"
      [] OTHER -> original_name

\* the asset name keeping only alphanumerics, '-' and '_'
clean_asset_of(asset_name) ==
    CASE asset_name = "villain 2" -> "villain2"
      [] OTHER -> asset_name

\* the file name: the parts that the f-string joins with '_'
filename_of(image_data, original_name, mime_type, asset_name) ==
    IF asset_name # None
    THEN <<clean_asset_of(asset_name), clean_name_of(original_name),
           texture_hash(image_data), ext_map(mime_type)>>
    ELSE <<clean_name_of(original_name), texture_hash(image_data), ext_map(mime_type)>>

\* (filename, f"textures/{filename}")
result_of(filename) == <<filename, <<"textures/", filename>>>>

Empty == [x \in {} |-> {}]

\* line 53: the lookup in the global registry
global_hit_never(h) == FALSE
global_hit(h) == h \in DOMAIN texture_registry

\* line 49: the lookup in the asset's registry
asset_hit(asset_name, h) ==
    /\ asset_name # None
    /\ asset_name \in DOMAIN asset_texture_sets
    /\ h \in DOMAIN asset_texture_sets[asset_name]

\* asset_texture_sets with asset_name's registry created when missing (lines 45-46)
with_asset(asset_name) ==
    IF asset_name # None /\ asset_name \notin DOMAIN asset_texture_sets
    THEN (asset_name :> Empty) @@ asset_texture_sets
    ELSE asset_texture_sets

\* asset_texture_sets[asset_name][h] = result
asset_put_filename_only(sets, asset_name, h, result) ==
    IF asset_name # None
    THEN [sets EXCEPT ![asset_name] = (h :> <<result[1]>>) @@ @]
    ELSE sets
asset_put(sets, asset_name, h, result) ==
    IF asset_name # None
    THEN [sets EXCEPT ![asset_name] = (h :> result) @@ @]
    ELSE sets

MaxThreads == 2     \* threads that share one ExternalTextureManager

Threads == 1..MaxThreads

\* a thread that is not inside register_texture
NoCall == [at |-> "out", image_data |-> <<>>, original_name |-> "", mime_type |-> "",
           asset_name |-> None]

InitReg ==
    /\ texture_registry = Empty
    /\ asset_texture_sets = Empty
    /\ files = Empty
    /\ writes = [h \in Hashes |-> 0]
    /\ write_failures = 0
    /\ returned = {}
    /\ in_flight = [t \in Threads |-> NoCall]

\* register_texture; io is what the file system does with the write of lines 84-85:
\* "ok", "open_fails" (no file) or "write_fails" (the file is created, the bytes are not
\* all written); a failed write raises and leaves the registries as they are
register_texture_stores_first(image_data, original_name, mime_type, asset_name, io) ==
    LET h == texture_hash(image_data)
        filename == filename_of(image_data, original_name, mime_type, asset_name)
        result == result_of(filename)
    IN  IF asset_hit(asset_name, h)
        THEN /\ returned' = returned \cup {<<image_data, asset_texture_sets[asset_name][h]>>}
             /\ UNCHANGED <<texture_registry, asset_texture_sets, files, writes, write_failures>>
        ELSE IF global_hit(h)
        THEN /\ asset_texture_sets' =
                    asset_put(with_asset(asset_name), asset_name, h, texture_registry[h])
             /\ returned' = returned \cup {<<image_data, texture_registry[h]>>}
             /\ UNCHANGED <<texture_registry, files, writes, write_failures>>
        ELSE IF io = "ok"
        THEN /\ UNCHANGED write_failures
             /\ files' = (filename :> image_data) @@ files
             /\ writes' = [writes EXCEPT ![h] = @ + 1]
             /\ texture_registry' = (h :> result) @@ texture_registry
             /\ asset_texture_sets' = asset_put(with_asset(asset_name), asset_name, h, result)
             /\ returned' = returned \cup {<<image_data, result>>}
        ELSE /\ write_failures < MaxWriteFailures
             /\ write_failures' = write_failures + 1
             /\ files' = IF io = "write_fails" THEN (filename :> <<>>) @@ files ELSE files
             /\ texture_registry' = (h :> result) @@ texture_registry
             /\ asset_texture_sets' = asset_put(with_asset(asset_name), asset_name, h, result)
             /\ UNCHANGED <<writes, returned>>
register_texture(image_data, original_name, mime_type, asset_name, io) ==
    LET h == texture_hash(image_data)
        filename == filename_of(image_data, original_name, mime_type, asset_name)
        result == result_of(filename)
    IN  IF asset_hit(asset_name, h)
        THEN /\ returned' = returned \cup {<<image_data, asset_texture_sets[asset_name][h]>>}
             /\ UNCHANGED <<texture_registry, asset_texture_sets, files, writes, write_failures>>
        ELSE IF global_hit(h)
        THEN /\ asset_texture_sets' =
                    asset_put(with_asset(asset_name), asset_name, h, texture_registry[h])
             /\ returned' = returned \cup {<<image_data, texture_registry[h]>>}
             /\ UNCHANGED <<texture_registry, files, writes, write_failures>>
        ELSE IF io = "ok"
        THEN /\ UNCHANGED write_failures
             /\ files' = (filename :> image_data) @@ files
             /\ writes' = [writes EXCEPT ![h] = @ + 1]
             /\ texture_registry' = (h :> result) @@ texture_registry
             /\ asset_texture_sets' = asset_put(with_asset(asset_name), asset_name, h, result)
             /\ returned' = returned \cup {<<image_data, result>>}
        ELSE /\ write_failures < MaxWriteFailures
             /\ write_failures' = write_failures + 1
             /\ files' = IF io = "write_fails" THEN (filename :> <<>>) @@ files ELSE files
             /\ asset_texture_sets' = with_asset(asset_name)
             /\ UNCHANGED <<texture_registry, writes, returned>>

\* cleanup_unused_textures: every file of the textures directory whose name is not in
\* used_textures is unlinked; the registries are not touched
cleanup_unused_textures(used_textures) ==
    /\ files' = [f \in DOMAIN files \cap used_textures |-> files[f]]
    /\ UNCHANGED <<texture_registry, asset_texture_sets, writes, write_failures, returned>>

NextReg ==
    \/ \E image_data \in Contents, named \in NamedAs, asset_name \in AssetNames,
          io \in {"ok", "open_fails", "write_fails"} :
           /\ register_texture(image_data, named[1], named[2], asset_name, io)
           /\ UNCHANGED <<in_flight, glbVars, cropVars, meshVars>>
    \/ \E used_textures \in SUBSET DOMAIN files :
           /\ cleanup_unused_textures(used_textures)
           /\ UNCHANGED <<in_flight, glbVars, cropVars, meshVars>>

\* register_texture called from several threads: nothing in the class serialises the
\* calls, so the threads interleave between the lookups (lines 41-58), the write of the
\* file (lines 61-85) and the update of the registries (lines 88-98)
register_texture_lookup(t, image_data, original_name, mime_type, asset_name) ==
    LET h == texture_hash(image_data)
    IN  /\ in_flight[t].at = "out"
        /\ IF asset_hit(asset_name, h)
           THEN /\ returned' = returned \cup {<<image_data, asset_texture_sets[asset_name][h]>>}
                /\ in_flight' = [in_flight EXCEPT ![t].at = "returned"]
                /\ UNCHANGED asset_texture_sets
           ELSE IF global_hit(h)
           THEN /\ asset_texture_sets' =
                       asset_put(with_asset(asset_name), asset_name, h, texture_registry[h])
                /\ returned' = returned \cup {<<image_data, texture_registry[h]>>}
                /\ in_flight' = [in_flight EXCEPT ![t].at = "returned"]
           ELSE /\ asset_texture_sets' = with_asset(asset_name)
                /\ in_flight' = [in_flight EXCEPT ![t] =
                       [at |-> "write", image_data |-> image_data,
                        original_name |-> original_name, mime_type |-> mime_type,
                        asset_name |-> asset_name]]
                /\ UNCHANGED returned
        /\ UNCHANGED <<texture_registry, files, writes, write_failures>>

register_texture_write(t) ==
    LET c == in_flight[t]
        filename == filename_of(c.image_data, c.original_name, c.mime_type, c.asset_name)
    IN  /\ c.at = "write"
        /\ files' = (filename :> c.image_data) @@ files
        /\ writes' = [writes EXCEPT ![texture_hash(c.image_data)] = @ + 1]
        /\ in_flight' = [in_flight EXCEPT ![t].at = "store"]
        /\ UNCHANGED <<texture_registry, asset_texture_sets, write_failures, returned>>

register_texture_store(t) ==
    LET c == in_flight[t]
        h == texture_hash(c.image_data)
        result == result_of(filename_of(c.image_data, c.original_name, c.mime_type,
                                        c.asset_name))
    IN  /\ c.at = "store"
        /\ texture_registry' = (h :> result) @@ texture_registry
        /\ asset_texture_sets' = asset_put(asset_texture_sets, c.asset_name, h, result)
        /\ returned' = returned \cup {<<c.image_data, result>>}
        /\ in_flight' = [in_flight EXCEPT ![t].at = "returned"]
        /\ UNCHANGED <<files, writes, write_failures>>

NextThreads ==
    \/ \E t \in Threads, image_data \in Contents, named \in NamedAs,
          asset_name \in AssetNames :
           /\ register_texture_lookup(t, image_data, named[1], named[2], asset_name)
           /\ UNCHANGED <<glbVars, cropVars, meshVars>>
    \/ \E t \in Threads :
           register_texture_write(t) /\ UNCHANGED <<glbVars, cropVars, meshVars>>
    \/ \E t \in Threads :
           register_texture_store(t) /\ UNCHANGED <<glbVars, cropVars, meshVars>>

------------------------------------------------------------------------------
(* TextureCropper and UVBoundsCalculator (texture_cropper.py) *)

\* U and V are held as numerators over UVDen; float32 and float64 hold such values, their
\* products with the image sizes below and the differences formed here exactly
UVDen == 2 ^ 8

\* -0.25, -0.0078, 0, 0.25, 0.75, 1, 1.0078, 1.25
UVCoords == {-64, -2, 0, 64, 192, 256, 258, 320}

UVPoints == UVCoords \X UVCoords

UVRank(p) == 1000 * p[1] + p[2]

\* UV arrays of minLen..MaxUVs pairs; the order of the pairs plays no role in any of the
\* functions below, so one order stands for all
UVArrays(minLen) ==
    UNION {{a \in [1..n -> UVPoints] : \A i \in 1..(n - 1) : UVRank(a[i]) <= UVRank(a[i + 1])} :
           n \in minLen..MaxUVs}

ImageSizes == {<<1024, 1024>>, <<256, 256>>, <<64, 32>>, <<600, 600>>}

\* (pixel_padding, min_size) of a crop_texture call
CropParams == {<<2, 16>>, <<0, 16>>, <<2, 24>>}

Max(a, b) == IF a >= b THEN a ELSE b
Min(a, b) == IF a <= b THEN a ELSE b

SeqMin(f, n) == CHOOSE x \in {f[i] : i \in 1..n} : \A i \in 1..n : x <= f[i]
SeqMax(f, n) == CHOOSE x \in {f[i] : i \in 1..n} : \A i \in 1..n : x >= f[i]

\* int(num / den): Python's int() truncates towards zero
PyInt(num, den) == IF num >= 0 THEN num \div den ELSE -((-num) \div den)

\* UVBoundsCalculator.calculate_bounds(uv_data), padding left at 0.0:
\* (min_u, min_v, max_u, max_v)
calculate_bounds(uvs) ==
    IF Len(uvs) = 0
    THEN <<0, 0, UVDen, UVDen>>
    ELSE <<SeqMin([i \in 1..Len(uvs) |-> uvs[i][1]], Len(uvs)),
           SeqMin([i \in 1..Len(uvs) |-> uvs[i][2]], Len(uvs)),
           SeqMax([i \in 1..Len(uvs) |-> uvs[i][1]], Len(uvs)),
           SeqMax([i \in 1..Len(uvs) |-> uvs[i][2]], Len(uvs))>>

NoBounds == <<0, 0, 0, 0>>

\* UVBoundsCalculator.calculate_bounds(uv_data, padding) with padding the fraction
\* padding[1]/padding[2]: (min_u, min_v, max_u, max_v) in 1/(UVDen * padding[2]) units
calculate_bounds_padding_u_range(uvs, padding) ==
    LET tight == calculate_bounds(uvs)
        u_range == tight[3] - tight[1]
    IN  IF Len(uvs) = 0 \/ padding[1] <= 0
        THEN [k \in 1..4 |-> tight[k] * padding[2]]
        ELSE <<tight[1] * padding[2] - padding[1] * u_range,
               tight[2] * padding[2] - padding[1] * u_range,
               tight[3] * padding[2] + padding[1] * u_range,
               tight[4] * padding[2] + padding[1] * u_range>>
calculate_bounds_padding(uvs, padding) ==
    LET tight == calculate_bounds(uvs)
        u_range == tight[3] - tight[1]
        v_range == tight[4] - tight[2]
    IN  IF Len(uvs) = 0 \/ padding[1] <= 0
        THEN [k \in 1..4 |-> tight[k] * padding[2]]
        ELSE <<tight[1] * padding[2] - padding[1] * u_range,
               tight[2] * padding[2] - padding[1] * v_range,
               tight[3] * padding[2] + padding[1] * u_range,
               tight[4] * padding[2] + padding[1] * v_range>>

RECURSIVE doubled_until(_, _)
doubled_until(power, value) ==
    IF power < value THEN doubled_until(2 * power, value) ELSE power

RECURSIVE is_power_of_2(_)
is_power_of_2(n) ==
    IF n <= 0 THEN FALSE
    ELSE IF n = 1 THEN TRUE
    ELSE IF n % 2 = 1 THEN FALSE
    ELSE is_power_of_2(n \div 2)

\* a plausible reading of the docstring "aligned to multiples of 16"
next_multiple_of_16(value) == IF value <= 0 THEN 16 ELSE ((value + 15) \div 16) * 16
next_power_of_2(value) ==
    IF value <= 0 THEN 1
    ELSE IF is_power_of_2(value) THEN value
    ELSE doubled_until(1, value)

RECURSIVE doubled_while(_, _)
doubled_while(power, value) ==
    IF power * 2 <= value THEN doubled_while(2 * power, value) ELSE power

prev_power_of_2(value) == IF value <= 0 THEN 1 ELSE doubled_while(1, value)

\* lines 92-97: rounded down only when that loses less area and keeps 80% of each axis
choose_dimensions_rounded_up(crop_width, crop_height) ==
    <<next_power_of_2(crop_width), next_power_of_2(crop_height)>>
choose_dimensions(crop_width, crop_height) ==
    LET width_up == next_power_of_2(crop_width)
        height_up == next_power_of_2(crop_height)
        width_down == prev_power_of_2(crop_width)
        height_down == prev_power_of_2(crop_height)
        waste_up == (width_up * height_up) - (crop_width * crop_height)
        waste_down == (crop_width * crop_height) - (width_down * height_down)
    IN  IF /\ waste_down < waste_up
           /\ width_down * 10 >= crop_width * 8
           /\ height_down * 10 >= crop_height * 8
        THEN <<width_down, height_down>>
        ELSE <<width_up, height_up>>

\* lines 104-110 (and 112-118): centre the window when it has to grow
expand_axis(lo, hi, size, crop_len, new_len) ==
    IF new_len > crop_len
    THEN LET expand == (new_len - crop_len) \div 2
             lo1 == Max(0, lo - expand)
             hi1 == Min(size, lo1 + new_len)
         IN  <<IF hi1 - lo1 < new_len THEN Max(0, hi1 - new_len) ELSE lo1, hi1>>
    ELSE <<lo, hi>>

\* lines 121-130: the final window, kept inside the image
final_axis_unchecked(lo, size, new_len) == <<lo, lo + new_len>>
final_axis(lo, size, new_len) ==
    IF lo + new_len > size THEN <<Max(0, size - new_len), size>> ELSE <<lo, lo + new_len>>

NoCrop == [size |-> <<0, 0>>, pixel_bounds |-> <<0, 0, 0, 0>>]

\* lines 31-54 of crop_texture: the padded pixel rectangle of the UV bounds,
\* (x_min, y_min, x_max, y_max), before any rounding
padded_rectangle(size, uv_bounds, padding) ==
    LET width == size[1]
        height == size[2]
        min_u == Max(0, uv_bounds[1])
        max_u == Min(UVDen, uv_bounds[3])
        min_v == Max(0, uv_bounds[2])
        max_v == Min(UVDen, uv_bounds[4])
    IN  <<Max(0, PyInt(min_u * width, UVDen) - padding),
          Max(0, PyInt((UVDen - max_v) * height, UVDen) - padding),
          Min(width, PyInt(max_u * width, UVDen) + padding),
          Min(height, PyInt((UVDen - min_v) * height, UVDen) + padding)>>

\* TextureCropper.crop_texture: the size of the cropped image and pixel_bounds
crop_texture(size, uv_bounds, padding, minimum) ==
    LET width == size[1]
        height == size[2]
        tiled == uv_bounds[1] < 0 \/ uv_bounds[3] > UVDen \/ uv_bounds[2] < 0 \/ uv_bounds[4] > UVDen
        min_u == IF tiled THEN Max(0, uv_bounds[1]) ELSE uv_bounds[1]
        max_u == IF tiled THEN Min(UVDen, uv_bounds[3]) ELSE uv_bounds[3]
        min_v == IF tiled THEN Max(0, uv_bounds[2]) ELSE uv_bounds[2]
        max_v == IF tiled THEN Min(UVDen, uv_bounds[4]) ELSE uv_bounds[4]
        x_min == Max(0, PyInt(min_u * width, UVDen) - padding)
        x_max == Min(width, PyInt(max_u * width, UVDen) + padding)
        y_min == Max(0, PyInt((UVDen - max_v) * height, UVDen) - padding)
        y_max == Min(height, PyInt((UVDen - min_v) * height, UVDen) + padding)
        crop_width == x_max - x_min
        crop_height == y_max - y_min
        chosen == choose_dimensions(crop_width, crop_height)
        new_width == Max(chosen[1], minimum)
        new_height == Max(chosen[2], minimum)
        xs == expand_axis(x_min, x_max, width, crop_width, new_width)
        ys == expand_axis(y_min, y_max, height, crop_height, new_height)
        fx == final_axis(xs[1], width, new_width)
        fy == final_axis(ys[1], height, new_height)
    IN  [size |-> <<fx[2] - fx[1], fy[2] - fy[1]>>,
         pixel_bounds |-> <<fx[1], fy[1], fx[2], fy[2]>>]

\* np.clip(x, 0.0, 1.0) of the fraction num/den, den > 0
clip01(num, den) == <<Max(0, Min(den, num)), den>>

\* the array as fractions: each pair is ((u, UVDen), (v, UVDen))
AsArray(uvs) == [i \in 1..Len(uvs) |-> <<<<uvs[i][1], UVDen>>, <<uvs[i][2], UVDen>>>>]

\* TextureCropper.remap_uv_coordinates: (u - x_min/width) / ((x_max - x_min)/width) and
\* (v - (1 - y_max/height)) / ((y_max - y_min)/height) as exact fractions, then clipped;
\* the float32 result differs from the fraction by rounding only
remap_uv_coordinates(uvs, size, pixel_bounds) ==
    LET width == size[1]
        height == size[2]
        x_min == pixel_bounds[1]
        y_min == pixel_bounds[2]
        x_max == pixel_bounds[3]
        y_max == pixel_bounds[4]
    IN  [i \in 1..Len(uvs) |->
            <<clip01(uvs[i][1] * width - UVDen * x_min, UVDen * (x_max - x_min)),
              clip01(uvs[i][2] * height - UVDen * (height - y_max), UVDen * (y_max - y_min))>>]

\* TextureCropper.calculate_texture_savings: (original_pixels, cropped_pixels)
calculate_texture_savings(original_size, cropped_size) ==
    <<original_size[1] * original_size[2], cropped_size[1] * cropped_size[2]>>

IdleCrop ==
    /\ image_size = <<1024, 1024>>
    /\ uv_data = <<>>
    /\ pixel_padding = 2
    /\ min_size = 16
    /\ crop_pc = "idle"
    /\ crop_calls = 0
    /\ crop_out = NoCrop
    /\ texcoord = <<>>
    /\ material_texture = "unset"
    /\ processed = <<"none", FALSE>>
    /\ crop_fault = "none"
    /\ uv_padding = <<0, 1>>
    /\ bounds_box = NoBounds

\* the arguments of a crop_texture call on the bounds of a UV array
InitCrop ==
    /\ image_size \in ImageSizes
    /\ uv_data \in UVArrays(0)
    /\ \E p \in CropParams : pixel_padding = p[1] /\ min_size = p[2]
    /\ crop_pc = "input"
    /\ crop_calls = 0
    /\ crop_out = NoCrop
    /\ texcoord = AsArray(uv_data)
    /\ material_texture = "unset"
    /\ processed = <<"none", FALSE>>
    /\ crop_fault = "none"
    /\ uv_padding = <<0, 1>>
    /\ bounds_box = NoBounds

\* images smaller than min_size, not powers of two, of one pixel
EdgeImageSizes == {<<1, 1>>, <<8, 4>>, <<100, 37>>, <<1024, 1024>>}

EdgeCropParams == {<<0, 1>>, <<2, 16>>, <<5, 3>>}

\* the arguments of a crop_texture call on such an image
InitCropEdge ==
    /\ image_size \in EdgeImageSizes
    /\ uv_data \in UVArrays(0)
    /\ \E p \in EdgeCropParams : pixel_padding = p[1] /\ min_size = p[2]
    /\ crop_pc = "input"
    /\ crop_calls = 0
    /\ crop_out = NoCrop
    /\ texcoord = AsArray(uv_data)
    /\ material_texture = "unset"
    /\ processed = <<"none", FALSE>>
    /\ crop_fault = "none"
    /\ uv_padding = <<0, 1>>
    /\ bounds_box = NoBounds

\* paddings of 0, 0.1, 0.5 and -0.1
Paddings == {<<0, 1>>, <<1, 10>>, <<1, 2>>, <<-1, 10>>}

\* the arguments of a calculate_bounds call
InitBounds ==
    /\ image_size = <<1024, 1024>>
    /\ uv_data \in UVArrays(0)
    /\ pixel_padding = 2
    /\ min_size = 16
    /\ crop_pc = "bounds"
    /\ crop_calls = 0
    /\ crop_out = NoCrop
    /\ texcoord = <<>>
    /\ material_texture = "unset"
    /\ processed = <<"none", FALSE>>
    /\ crop_fault = "none"
    /\ uv_padding \in Paddings
    /\ bounds_box = NoBounds

calculate_bounds_call ==
    /\ crop_pc = "bounds"
    /\ bounds_box' = calculate_bounds_padding(uv_data, uv_padding)
    /\ crop_pc' = "bounded"
    /\ UNCHANGED <<crop_fault, uv_padding, image_size, uv_data, pixel_padding, min_size,
                   crop_calls, crop_out, texcoord, material_texture, processed>>

NextBounds == calculate_bounds_call /\ UNCHANGED <<glbVars, regVars, meshVars>>

crop_texture_call ==
    /\ crop_pc = "input"
    /\ crop_out' = crop_texture(image_size, calculate_bounds(uv_data), pixel_padding, min_size)
    /\ crop_calls' = crop_calls + 1
    /\ crop_pc' = "cropped"
    /\ UNCHANGED <<crop_fault, uv_padding, bounds_box, image_size, uv_data, pixel_padding, min_size, texcoord, material_texture,
                   processed>>

remap_uv_coordinates_call ==
    /\ crop_pc = "cropped"
    /\ texcoord' = remap_uv_coordinates(uv_data, image_size, crop_out.pixel_bounds)
    /\ crop_pc' = "remapped"
    /\ UNCHANGED <<crop_fault, uv_padding, bounds_box, image_size, uv_data, pixel_padding, min_size, crop_calls, crop_out,
                   material_texture, processed>>

NextCrop ==
    \/ crop_texture_call /\ UNCHANGED <<glbVars, regVars, meshVars>>
    \/ remap_uv_coordinates_call /\ UNCHANGED <<glbVars, regVars, meshVars>>

------------------------------------------------------------------------------
(* The two call sites of crop_texture *)

\* glb_exporter_cropped.py line 263: u_min < -0.01 or u_max > 1.01 or v_min < -0.01 or
\* v_max > 1.01
is_tiled_above_only(b) == b[3] * 100 > 101 * UVDen \/ b[4] * 100 > 101 * UVDen
is_tiled(b) ==
    \/ b[1] * 100 < -UVDen
    \/ b[3] * 100 > 101 * UVDen
    \/ b[2] * 100 < -UVDen
    \/ b[4] * 100 > 101 * UVDen

\* glb_exporter_cropped.py lines 289-302:
\* area_ratio < 0.9 and is_valid_power_of_2 and is_smaller
adoption_gate_area_only(original_size, cropped_size) ==
    cropped_size[1] * cropped_size[2] * 10 < original_size[1] * original_size[2] * 9
adoption_gate(original_size, cropped_size) ==
    LET original_area == original_size[1] * original_size[2]
        cropped_area == cropped_size[1] * cropped_size[2]
    IN  /\ original_area > 0
        /\ cropped_area * 10 < original_area * 9
        /\ is_power_of_2(cropped_size[1]) /\ is_power_of_2(cropped_size[2])
        /\ (cropped_size[1] < original_size[1] \/ cropped_size[2] < original_size[2])

\* _add_texture_to_glb(generator, image): glb_exporter_cropped.py imports it from
\* glb_exporter.py, which does not define it; it adds the image as it is
_add_texture_to_glb == "original"

\* UVBoundsCalculator.check_if_tiled of the module uv_bounds_calculator that mesh_processor.py
\* imports: any bound outside [0,1] beyond a small epsilon
check_if_tiled(b) ==
    \/ b[1] * 100 < -UVDen
    \/ b[3] * 100 > 101 * UVDen
    \/ b[2] * 100 < -UVDen
    \/ b[4] * 100 > 101 * UVDen

\* one primitive with a base colour texture enters the loop of
\* export_mesh_to_glb_with_texture_cropping, or one call of process_texture_with_cropping
InitExport ==
    /\ image_size \in ImageSizes
    /\ uv_data \in UVArrays(1)
    /\ pixel_padding = 2
    /\ min_size = 16
    /\ crop_pc = "input"
    /\ crop_calls = 0
    /\ crop_out = NoCrop
    /\ texcoord = AsArray(uv_data)
    /\ material_texture = "unset"
    /\ processed = <<"none", FALSE>>
    /\ crop_fault = "none"
    /\ uv_padding = <<0, 1>>
    /\ bounds_box = NoBounds

\* lines 370-375: the handler of the crop step adds the image as it is
crop_failure_texture_cropped == "cropped"
crop_failure_texture == _add_texture_to_glb

\* lines 376-381: a tiled primitive keeps the image and its UVs
export_tiled ==
    /\ crop_pc = "input"
    /\ is_tiled(calculate_bounds(uv_data))
    /\ material_texture' = _add_texture_to_glb
    /\ crop_pc' = "exported"
    /\ UNCHANGED <<crop_fault, uv_padding, bounds_box, image_size, uv_data, pixel_padding, min_size, crop_calls, crop_out, texcoord,
                   processed>>
    /\ UNCHANGED <<glbVars, regVars, meshVars>>

\* lines 267-355: the crop passes the gate; the UVs are remapped, the cropped image is
\* encoded and appended to the generator's buffer
export_adopted ==
    /\ crop_pc = "input"
    /\ ~is_tiled(calculate_bounds(uv_data))
    /\ LET out == crop_texture(image_size, calculate_bounds(uv_data), pixel_padding, min_size)
       IN  /\ adoption_gate(image_size, out.size)
           /\ crop_out' = out
           /\ texcoord' = remap_uv_coordinates(uv_data, image_size, out.pixel_bounds)
    /\ crop_calls' = crop_calls + 1
    /\ add_texture_to_glb_cropped(TextureBytes(MaxTexLen))
    /\ material_texture' = "cropped"
    /\ crop_pc' = "exported"
    /\ UNCHANGED <<crop_fault, uv_padding, bounds_box, image_size, uv_data, pixel_padding, min_size, processed>>
    /\ UNCHANGED <<regVars, meshVars>>

\* lines 302-324, 370-375: the crop passes the gate and the UVs are remapped, then encoding
\* the cropped image raises; the handler adds the image as it is
export_save_raises ==
    /\ crop_pc = "input"
    /\ ~is_tiled(calculate_bounds(uv_data))
    /\ LET out == crop_texture(image_size, calculate_bounds(uv_data), pixel_padding, min_size)
       IN  /\ adoption_gate(image_size, out.size)
           /\ crop_out' = out
           /\ texcoord' = remap_uv_coordinates(uv_data, image_size, out.pixel_bounds)
    /\ crop_calls' = crop_calls + 1
    /\ crop_fault' = "save"
    /\ material_texture' = crop_failure_texture
    /\ crop_pc' = "exported"
    /\ UNCHANGED <<uv_padding, bounds_box, image_size, uv_data, pixel_padding, min_size, processed>>
    /\ UNCHANGED <<glbVars, regVars, meshVars>>

\* lines 356-368: the crop fails the gate
export_rejected ==
    /\ crop_pc = "input"
    /\ ~is_tiled(calculate_bounds(uv_data))
    /\ LET out == crop_texture(image_size, calculate_bounds(uv_data), pixel_padding, min_size)
       IN  /\ ~adoption_gate(image_size, out.size)
           /\ crop_out' = out
    /\ crop_calls' = crop_calls + 1
    /\ material_texture' = _add_texture_to_glb
    /\ crop_pc' = "exported"
    /\ UNCHANGED <<crop_fault, uv_padding, bounds_box, image_size, uv_data, pixel_padding, min_size, texcoord, processed>>
    /\ UNCHANGED <<glbVars, regVars, meshVars>>

\* lines 267-280, 370-375: crop_texture raises (the bytes do not decode)
export_crop_raises ==
    /\ crop_pc = "input"
    /\ ~is_tiled(calculate_bounds(uv_data))
    /\ crop_calls' = crop_calls + 1
    /\ crop_fault' = "crop"
    /\ material_texture' = crop_failure_texture
    /\ crop_pc' = "exported"
    /\ UNCHANGED <<uv_padding, bounds_box, image_size, uv_data, pixel_padding, min_size, crop_out, texcoord, processed>>
    /\ UNCHANGED <<glbVars, regVars, meshVars>>

\* mesh_processor.py, process_texture_with_cropping(image, uv_bounds, enable_cropping) with
\* uv_bounds the bounds of uv_data.  Past the two checks crop_texture is called and its
\* pair is unpacked into three names, which raises; the handler returns the original
process_texture_with_cropping(enable_cropping) ==
    /\ crop_pc = "input"
    /\ LET b == calculate_bounds(uv_data)
           skipped == \/ ~enable_cropping
                      \/ ((b[3] - b[1]) * 10 > 9 * UVDen /\ (b[4] - b[2]) * 10 > 9 * UVDen)
                      \/ check_if_tiled(b)
       IN  IF skipped
           THEN UNCHANGED <<crop_calls, crop_out, crop_fault>>
           ELSE /\ crop_calls' = crop_calls + 1
                /\ crop_out' = crop_texture(image_size, b, 2, 16)
                /\ crop_fault' = "unpack"
    /\ processed' = <<"original", FALSE>>
    /\ crop_pc' = "processed"
    /\ UNCHANGED <<uv_padding, bounds_box, image_size, uv_data, pixel_padding, min_size, texcoord, material_texture>>
    /\ UNCHANGED <<glbVars, regVars, meshVars>>

NextExport ==
    \/ export_tiled
    \/ export_adopted
    \/ export_save_raises
    \/ export_rejected
    \/ export_crop_raises
    \/ \E enable_cropping \in BOOLEAN : process_texture_with_cropping(enable_cropping)

\* the generator of glb_exporter.py as constructed
IdleExternalGLB ==
    /\ variant = "external"
    /\ InitGLB

\* the generator as constructed
IdleGLB ==
    /\ variant = "simple"
    /\ InitGLB

------------------------------------------------------------------------------
(* _add_accessor of blender_to_glb_simple.py called on arrays of every type and arity *)

MaxAppends == 1     \* calls of _add_accessor

\* non-empty arrays: every element type (two of them outside dtype_map) as a 1-D array
\* and as a one-row 2-D array of every arity TYPE_STRINGS knows, and of arity 5
AccessorInputs ==
    {<<t, MkArray(d, 1, 2, 1)>> : t \in {"POSITION", "_CUSTOM"}, d \in DTypes \cup {"int64"}}
    \cup {<<t, MkArray(d, 2, 1, c)>> : t \in {"POSITION", "_CUSTOM"},
                                      d \in DTypes \cup {"int64"}, c \in {1, 2, 3, 4, 5, 9, 16}}

add_accessor_call(data, attribute_type) ==
    /\ variant = "simple"
    /\ Len(accessors) < MaxAppends
    /\ SetGen(_add_accessor(Gen, data, attribute_type))
    /\ UNCHANGED <<variant, pc, images, textures, samplers, materials, mesh_prims, cur_prim,
                   gltf, glb>>

NextAccessor ==
    \E in \in AccessorInputs : add_accessor_call(in[2], in[1]) /\ UNCHANGED notGLB

------------------------------------------------------------------------------
(* export_mesh_to_glb of glb_exporter.py *)

MaxSlots == 2       \* material slots of the exported mesh

\* the output_path argument
output_path == "mesh.glb"

IdleMesh ==
    /\ export_pc = "idle"
    /\ export_asset_name = None
    /\ mesh_materials = <<>>
    /\ output_files = Empty
    /\ export_result = "none"
    /\ export_fault = "none"

\* register_texture raises: the bytes are not registered yet and the write fails
register_texture_raises(image_data, asset_name, io) ==
    /\ ~asset_hit(asset_name, texture_hash(image_data))
    /\ ~global_hit(texture_hash(image_data))
    /\ io # "ok"

\* a primitive as export_mesh_to_glb builds it (lines 439-446) from three distinct
\* vertices: float32 POSITION, NORMAL and TEXCOORD_0 and uint32 indices
MeshPosition == MkArray("float32", 2, 3, 3)
MeshTexcoord == MkArray("float32", 2, 3, 2)
MeshIndices == MkArray("uint32", 1, 3, 1)

\* glb_exporter.py _process_primitive on such a primitive: the generator after it
mesh_primitive(g) ==
    add_primitive_data(
        add_primitive_data(
            add_primitive_data(
                add_primitive_data(g, MeshPosition, FLOAT, "VEC3", ARRAY_BUFFER),
                MeshPosition, FLOAT, "VEC3", ARRAY_BUFFER),
            MeshTexcoord, FLOAT, "VEC2", ARRAY_BUFFER),
        MeshIndices, UNSIGNED_INT, "SCALAR", ELEMENT_ARRAY_BUFFER)

\* lines 335-391: the call starts; the generator is a new SimpleGLBGenerator
export_mesh_begin(asset_name) ==
    /\ export_pc = "idle"
    /\ export_pc' = "materials"
    /\ export_asset_name' = asset_name
    /\ UNCHANGED <<mesh_materials, output_files, export_result, export_fault>>
    /\ UNCHANGED <<glbVars, regVars, cropVars>>

\* lines 396-433: a material slot without a base colour image
export_material_plain ==
    /\ export_pc = "materials"
    /\ Len(mesh_materials) < MaxSlots
    /\ mesh_materials' = Append(mesh_materials, NoIndex)
    /\ UNCHANGED <<export_pc, export_asset_name, output_files, export_result, export_fault>>
    /\ UNCHANGED <<glbVars, regVars, cropVars>>

\* lines 396-433 with add_external_texture (lines 165-193): a material slot with a base
\* colour image; an exception of register_texture reaches the handler of lines 476-480
export_material_textured(image_data, original_name, mime_type, io) ==
    /\ export_pc = "materials"
    /\ Len(mesh_materials) < MaxSlots
    /\ register_texture(image_data, original_name, mime_type, export_asset_name, io)
    /\ IF register_texture_raises(image_data, export_asset_name, io)
       THEN /\ export_pc' = "returned"
            /\ export_result' = FALSE
            /\ export_fault' = "texture_write"
            /\ UNCHANGED <<mesh_materials, images, textures, samplers>>
       ELSE /\ textures' = Append(textures, [source |-> Len(images), sampler |-> 0])
            /\ images' = Append(images,
                   [uri |-> texture_registry'[texture_hash(image_data)][2],
                    mimeType |-> mime_type])
            /\ samplers' = IF samplers = <<>> THEN <<[wrapS |-> 10497]>> ELSE samplers
            /\ mesh_materials' = Append(mesh_materials, Len(textures))
            /\ UNCHANGED <<export_pc, export_result, export_fault>>
    /\ UNCHANGED <<export_asset_name, output_files, in_flight>>
    /\ UNCHANGED <<variant, pc, buffer_data, accessors, buffer_views, materials, mesh_prims,
                   cur_prim, appended, gltf, glb>>
    /\ UNCHANGED cropVars

\* lines 396-433: any other exception while a material slot is processed (the read of
\* the image file in encode_image_to_buffer fails) reaches the handler of lines 476-480
export_material_raises ==
    /\ export_pc = "materials"
    /\ Len(mesh_materials) < MaxSlots
    /\ export_pc' = "returned"
    /\ export_result' = FALSE
    /\ export_fault' = "material"
    /\ UNCHANGED <<export_asset_name, mesh_materials, output_files>>
    /\ UNCHANGED <<glbVars, regVars, cropVars>>

\* lines 435-463: final_primitives and generator.create_glb(mesh_data, materials_data)
export_create_glb(n_primitives, json_len) ==
    /\ export_pc = "materials"
    /\ export_pc' = "write"
    /\ LET g == IF n_primitives = 0 THEN Gen ELSE mesh_primitive(Gen)
           k == Len(accessors)
           prims == IF n_primitives = 0 THEN <<>>
                    ELSE <<[attributes |-> <<<<"POSITION", k>>, <<"NORMAL", k + 1>>,
                                             <<"TEXCOORD_0", k + 2>>>>,
                            indices |-> k + 3, material |-> 0]>>
       IN  /\ SetGen(g)
           /\ mesh_prims' = prims
           /\ gltf' = [meshes |-> <<[primitives |-> prims]>>, accessors |-> g.accessors,
                       bufferViews |-> g.buffer_views,
                       buffers |-> <<[byteLength |-> Len(g.buffer_data)]>>,
                       materials |-> Len(mesh_materials), json_len |-> json_len]
           /\ glb' = _create_glb_binary_ext(json_len, g.buffer_data)
    /\ pc' = "done"
    /\ materials' = Len(mesh_materials)
    /\ cur_prim' = NoPrim
    /\ UNCHANGED <<variant, images, textures, samplers>>
    /\ UNCHANGED <<export_asset_name, mesh_materials, output_files, export_result,
                   export_fault>>
    /\ UNCHANGED <<regVars, cropVars>>

\* lines 465-480: the container is written; io is what the file system does: "ok",
\* "open_fails" (makedirs or open raises, no file) or "write_fails" (open has created the
\* file, write raises after `written` bytes); nothing removes the file afterwards
export_write(io, written) ==
    /\ export_pc = "write"
    /\ export_pc' = "returned"
    /\ output_files' =
           IF io = "ok" THEN (output_path :> glb) @@ output_files
           ELSE IF io = "write_fails"
           THEN (output_path :> SubSeq(glb, 1, written)) @@ output_files
           ELSE output_files
    /\ export_result' = (io = "ok")
    /\ export_fault' = IF io = "ok" THEN "none" ELSE "container_write"
    /\ UNCHANGED <<export_asset_name, mesh_materials>>
    /\ UNCHANGED <<glbVars, regVars, cropVars>>

NextMesh ==
    \/ \E asset_name \in AssetNames : export_mesh_begin(asset_name)
    \/ export_material_plain
    \/ \E image_data \in Contents, named \in NamedAs,
          io \in {"ok", "open_fails", "write_fails"} :
           export_material_textured(image_data, named[1], named[2], io)
    \/ export_material_raises
    \/ \E n_primitives \in 0..MaxPrims, json_len \in {MaxJsonLen} :
           export_create_glb(n_primitives, json_len)
    \/ \E io \in {"ok", "open_fails"} : export_write(io, 0)
    \/ \E written \in {0, 12} : export_write("write_fails", written)

\* each specification starts one component; the others stay as constructed
InitSpecGLB == InitGLB /\ InitReg /\ IdleCrop /\ IdleMesh

InitSpecReg == IdleGLB /\ InitReg /\ IdleCrop /\ IdleMesh

InitSpecCrop == IdleGLB /\ InitReg /\ InitCrop /\ IdleMesh

InitSpecExport == IdleExternalGLB /\ InitReg /\ InitExport /\ IdleMesh

InitSpecMesh == IdleExternalGLB /\ InitReg /\ IdleCrop /\ IdleMesh

InitSpecAccessor == IdleGLB /\ InitReg /\ IdleCrop /\ IdleMesh

InitSpecThreads == IdleGLB /\ InitReg /\ IdleCrop /\ IdleMesh

InitSpecCropEdge == IdleGLB /\ InitReg /\ InitCropEdge /\ IdleMesh

InitSpecBounds == IdleGLB /\ InitReg /\ InitBounds /\ IdleMesh

SpecGLB == InitSpecGLB /\ [][NextGLB]_vars

SpecReg == InitSpecReg /\ [][NextReg]_vars

SpecCrop == InitSpecCrop /\ [][NextCrop]_vars

SpecExport == InitSpecExport /\ [][NextExport]_vars

SpecMesh == InitSpecMesh /\ [][NextMesh]_vars

SpecAccessor == InitSpecAccessor /\ [][NextAccessor]_vars

SpecThreads == InitSpecThreads /\ [][NextThreads]_vars

SpecCropEdge == InitSpecCropEdge /\ [][NextCrop]_vars

SpecBounds == InitSpecBounds /\ [][NextBounds]_vars

InitSpecPrimitive == InitGLB /\ InitReg /\ IdleCrop /\ IdleMesh

SpecPrimitive == InitSpecPrimitive /\ [][NextPrimitive]_vars

\* C4: every registration of the same bytes, under any asset scope, original name and
\* MIME type, returns the same (filename, URI), and the bytes of a content hash are
\* written to storage exactly once
C4_DedupIdempotent ==
    /\ \A r1 \in returned : \A r2 \in returned : r1[1] = r2[1] => r1[2] = r2[2]
    /\ \A h \in Hashes : writes[h] <= 1
    /\ \A r \in returned : writes[texture_hash(r[1])] = 1

\* the same bytes registered under two asset scopes and without a scope
C4_Witness ==
    \E c \in Contents :
        /\ asset_hit("hero", texture_hash(c))
        /\ asset_hit("villain 2", texture_hash(c))
        /\ global_hit(texture_hash(c))
        /\ texture_registry[texture_hash(c)][1][1] = "villain2"
        /\ \E r \in returned : r[1] = c

------------------------------------------------------------------------------
(* Properties of the emitted container *)

\* n rounded up to a multiple of 4
Aligned4(n) == ((n + 3) \div 4) * 4

\* C1: the totalLength field of the header of every returned stream is the stream's
\* exact byte length, 12 + 8 + padded JSON length + 8 + padded binary length
C1_TotalLengthIsStreamLength ==
    pc = "done" =>
        /\ unpack_U32(glb, 8) = Len(glb)
        /\ Len(glb) = 12 + 8 + Aligned4(gltf.json_len) + 8 + Aligned4(Len(buffer_data))

\* a finalized external container holding an array and a texture whose buffer ends unaligned
C1_Witness ==
    /\ pc = "done"
    /\ variant = "external"
    /\ images # <<>>
    /\ accessors # <<>>
    /\ Len(buffer_data) % 4 # 0
    /\ gltf.json_len % 4 # 0

\* C2: every bufferView, of the generator and of the emitted document, starts at a
\* multiple of 4, whatever was appended before it
C2_ByteOffsetsAligned ==
    /\ \A i \in 1..Len(buffer_views) : buffer_views[i].byteOffset % 4 = 0
    /\ \A i \in 1..Len(gltf.bufferViews) : gltf.bufferViews[i].byteOffset % 4 = 0

\* an emitted document whose second bufferView follows an item of unaligned length
C2_Witness ==
    /\ pc = "done"
    /\ Len(gltf.bufferViews) >= 2
    /\ gltf.bufferViews[1].byteLength % 4 # 0
    /\ gltf.bufferViews[2].byteOffset > 0

\* byte size of a glTF componentType, components of a glTF type
ComponentSize(component_type) ==
    CASE component_type \in {5120, 5121} -> 1
      [] component_type \in {5122, 5123} -> 2
      [] OTHER -> 4

NumComponents(type) ==
    CASE type = "SCALAR" -> 1
      [] type = "VEC2" -> 2
      [] type = "VEC3" -> 3
      [] type = "VEC4" -> 4
      [] type = "MAT3" -> 9
      [] OTHER -> 16

\* the glTF componentType that denotes an element type; 0 when there is none
RealComponentType(dtype) ==
    CASE dtype = "int8" -> 5120
      [] dtype = "uint8" -> 5121
      [] dtype = "int16" -> 5122
      [] dtype = "uint16" -> 5123
      [] dtype = "uint32" -> 5125
      [] dtype = "float32" -> 5126
      [] OTHER -> 0

\* the n little-endian elements of `size` bytes each that start at byte `offset` of s
Decode(s, offset, size, n) ==
    [k \in 1..n |->
        LET at(j) == s[offset + (k - 1) * size + j + 1]
        IN  at(0) + (IF size >= 2 THEN 256 * at(1) ELSE 0)
                  + (IF size >= 4 THEN 65536 * at(2) + 16777216 * at(3) ELSE 0)]

RoundTrips(i) ==
    LET accessor == accessors[i]
        view == buffer_views[accessor.bufferView + 1]
        size == ComponentSize(accessor.componentType)
        n == accessor.count * NumComponents(accessor.type)
    IN  /\ n * size = view.byteLength
        /\ accessor.componentType = RealComponentType(appended[i].dtype)
        /\ Decode(buffer_data, view.byteOffset, size, n) = appended[i].data

\* C3: decoding a bufferView with its accessor's componentType, type and count gives
\* the array that was appended: count x components x byte size is the byteLength and
\* the componentType is the array's element type
C3_RoundTrip == \A i \in 1..Len(accessors) : RoundTrips(i)

\* C10: the returned stream is the header (magic, version 2, totalLength), the JSON
\* chunk (length, type, text padded with spaces to a multiple of 4) and the binary
\* chunk (length, type, buffer padded with zero bytes to a multiple of 4), in this
\* order and with nothing else; the binary chunk is always there
C10_StreamLayout ==
    pc = "done" =>
        LET json_length == unpack_U32(glb, 12)
            bin_at == 20 + json_length
            bin_length == unpack_U32(glb, bin_at)
        IN  /\ unpack_U32(glb, 0) = 1179937895
            /\ unpack_U32(glb, 4) = 2
            /\ unpack_U32(glb, 8) = Len(glb)
            /\ unpack_U32(glb, 16) = 1313821514
            /\ json_length % 4 = 0
            /\ json_length >= gltf.json_len
            /\ json_length < gltf.json_len + 4
            /\ \A i \in 1..json_length :
                  glb[20 + i] = IF i <= gltf.json_len THEN JsonText(gltf.json_len)[i]
                                ELSE 32
            /\ bin_length >= 0
            /\ unpack_U32(glb, bin_at + 4) = 5130562
            /\ bin_length % 4 = 0
            /\ Len(glb) = bin_at + 8 + bin_length
            /\ bin_length >= Len(buffer_data)
            /\ bin_length < Len(buffer_data) + 4
            /\ \A i \in 1..bin_length :
                  glb[bin_at + 8 + i] = IF i <= Len(buffer_data) THEN buffer_data[i]
                                        ELSE 0

\* a stream whose JSON text and whose binary buffer both needed padding
C10_Witness ==
    /\ pc = "done"
    /\ variant = "external"
    /\ gltf.json_len % 4 = 3
    /\ Len(buffer_data) % 4 = 2

------------------------------------------------------------------------------
(* Properties of the cropper *)

InUnitSquare(b) == b[1] >= 0 /\ b[2] >= 0 /\ b[3] <= UVDen /\ b[4] <= UVDen

\* the inverse affine transform u = u' * uScale + uOffset with uScale = (hi - lo)/size and
\* uOffset = lo/size, applied to u' = num/(UVDen * (hi - lo)): the numerator over UVDen * size
InverseAffine(remapped, lo) == remapped[1] + UVDen * lo

Abs(x) == IF x >= 0 THEN x ELSE -x

\* |recovered - original| <= 1e-4, both over UVDen * size
Within1e4(recovered, original, size) ==
    Abs(recovered - original) * (10000 \div 16) <= (UVDen \div 16) * size

Recovered(i) ==
    /\ Within1e4(InverseAffine(texcoord[i][1], crop_out.pixel_bounds[1]),
                 uv_data[i][1] * image_size[1], image_size[1])
    /\ Within1e4(InverseAffine(texcoord[i][2], image_size[2] - crop_out.pixel_bounds[4]),
                 uv_data[i][2] * image_size[2], image_size[2])

\* C5: for UV bounds inside the unit square, every UV of the array the bounds were taken
\* from is recovered within 1e-4 by remap_uv_coordinates followed by the inverse affine
\* transform
C5_RemapInverseRecovers ==
    (crop_pc = "remapped" /\ InUnitSquare(calculate_bounds(uv_data)))
        => \A i \in 1..Len(uv_data) : Recovered(i)

SpecExample ==
    /\ image_size = <<1024, 1024>>
    /\ calculate_bounds(uv_data) = <<64, 64, 192, 192>>
    /\ pixel_padding = 2

PowerOfTwoImage ==
    /\ is_power_of_2(image_size[1])
    /\ is_power_of_2(image_size[2])
    /\ image_size[1] >= min_size
    /\ image_size[2] >= min_size

PowerOfTwoResult ==
    /\ is_power_of_2(crop_out.size[1])
    /\ is_power_of_2(crop_out.size[2])
    /\ crop_out.size[1] <= image_size[1]
    /\ crop_out.size[2] <= image_size[2]
    /\ SpecExample => (crop_out.size[1] < image_size[1] \/ crop_out.size[2] < image_size[2])

FullUnitSquare == calculate_bounds(uv_data) = <<0, 0, UVDen, UVDen>>

Area(size) == size[1] * size[2]

\* C7: for UVs spanning the full unit square the crop has the area of the image, the
\* material keeps the original texture and the UVs are not remapped
C7_FullSquareKept ==
    (crop_pc = "exported" /\ FullUnitSquare /\ crop_out # NoCrop)
        => /\ Area(crop_out.size) = Area(image_size)
           /\ material_texture = "original"
           /\ texcoord = AsArray(uv_data)

\* outside [0,1] beyond the epsilon: a bound below -0.01 or above 1.01
BeyondEpsilon(b) ==
    \E i \in 1..4 : b[i] * 100 < -UVDen \/ b[i] * 100 > 101 * UVDen

\* C8: for bounds with a coordinate below -0.01 or above 1.01 crop_texture is not invoked,
\* the texture is the original one and the UVs are the input UVs, at both call sites
C8_TiledNeverCropped ==
    BeyondEpsilon(calculate_bounds(uv_data)) =>
        /\ crop_calls = 0
        /\ texcoord = AsArray(uv_data)
        /\ crop_pc = "exported" => material_texture = "original"
        /\ crop_pc = "processed" => processed = <<"original", FALSE>>

\* the exporter has handled a primitive with bounds like (-0.25, 0, 1.25, 1)
C8_Witness ==
    /\ crop_pc = "exported"
    /\ calculate_bounds(uv_data) = <<-64, 0, 320, 256>>
    /\ material_texture = "original"
    /\ crop_calls = 0

\* the three conditions of the gate, on what crop_texture returned
GateConditions ==
    /\ Area(crop_out.size) * 10 < Area(image_size) * 9
    /\ is_power_of_2(crop_out.size[1])
    /\ is_power_of_2(crop_out.size[2])
    /\ (crop_out.size[1] < image_size[1] \/ crop_out.size[2] < image_size[2])

\* C9: the material references the cropped texture only if the three conditions hold; when
\* one of them fails it references the original texture and TEXCOORD_0 is the input array
C9_AdoptionGate ==
    crop_pc = "exported" =>
        /\ material_texture = "cropped" => GateConditions
        /\ (crop_out # NoCrop /\ ~GateConditions) =>
                (material_texture = "original" /\ texcoord = AsArray(uv_data))

\* a crop under 90% of the area and smaller in one dimension, kept out for a side that is
\* not a power of two
C9_Witness ==
    /\ crop_pc = "exported"
    /\ crop_out # NoCrop
    /\ Area(crop_out.size) * 10 < Area(image_size) * 9
    /\ ~is_power_of_2(crop_out.size[1])
    /\ material_texture = "original"
    /\ texcoord = AsArray(uv_data)

-------------------------------------------------------------------------------
(* The placeholder mesh *)

NoPrimitiveWithAttributes ==
    \A i \in 1..Len(mesh_prims) : mesh_prims[i].attributes = <<>>

IsPlaceholder(prim) ==
    /\ Len(prim.attributes) = 1
    /\ prim.attributes[1][1] = "POSITION"
    /\ prim.attributes[1][2] + 1 \in 1..Len(appended)
    /\ appended[prim.attributes[1][2] + 1] = MinimalTriangle

\* C11: every emitted document has exactly one mesh, each primitive of that mesh
\* has at least one attribute, and when the input had no primitive with
\* attributes the mesh holds the single-triangle placeholder primitive whose
\* POSITION accessor is the minimal triangle.
C11_PlaceholderMesh ==
    pc = "done" =>
        /\ Len(gltf.meshes) = 1
        /\ Len(gltf.meshes[1].primitives) >= 1
        /\ \A i \in 1..Len(gltf.meshes[1].primitives) :
               gltf.meshes[1].primitives[i].attributes # <<>>
        /\ NoPrimitiveWithAttributes =>
               /\ Len(gltf.meshes[1].primitives) = 1
               /\ IsPlaceholder(gltf.meshes[1].primitives[1])

-------------------------------------------------------------------------------
(* Index stability *)

IsPrefix(s, t) == Len(s) <= Len(t) /\ SubSeq(t, 1, Len(s)) = s

\* the step is the reset that opens create_glb of blender_to_glb_simple.py
IsReset == variant = "simple" /\ pc \in {"idle", "done"} /\ pc' = "mesh"

\* the step recorded the index an append returned for an attribute of the primitive
RecordsAttribute == Len(cur_prim'.attributes) = Len(cur_prim.attributes) + 1

\* C12: accessor and bufferView indices are assigned in call order and stay stable:
\* every step other than the reset of a new create_glb (an append, a texture
\* addition, a finalize) keeps every earlier accessor and bufferView at its index
\* and adds new ones only at the end, and the index an append returns is the
\* number of accessors appended before it, which denotes the array just appended.
C12_IndicesStable ==
    [][ /\ ~IsReset =>
            /\ IsPrefix(accessors, accessors')
            /\ IsPrefix(buffer_views, buffer_views')
            /\ IsPrefix(appended, appended')
            /\ Len(accessors') <= Len(accessors) + 1
            /\ Len(buffer_views') <= Len(buffer_views) + 1
        /\ RecordsAttribute =>
            LET idx == cur_prim'.attributes[Len(cur_prim'.attributes)][2]
            IN  /\ idx = Len(accessors)
                /\ Len(accessors') = idx + 1
                /\ accessors'[idx + 1].count = appended'[idx + 1].shape0
      ]_vars

C12_Witness ==
    /\ pc = "done"
    /\ Len(buffer_views) = 2
    /\ Len(accessors) >= 1
    /\ Len(gltf.accessors) = Len(accessors)

-------------------------------------------------------------------------------
(* Lifetime of a texture asset *)

\* C13: once register_texture has returned a pair for some bytes, the registry
\* keeps that pair for their hash, and the file the pair names exists and holds
\* exactly those bytes, whatever registry operations follow.
C13_AssetKept ==
    \A r \in returned :
        /\ global_hit(texture_hash(r[1]))
        /\ texture_registry[texture_hash(r[1])] = r[2]
        /\ r[2][1] \in DOMAIN files
        /\ files[r[2][1]] = r[1]

-------------------------------------------------------------------------------
(* Failures of export_mesh_to_glb *)

\* C14: when the write of a texture file in register_texture fails, or the write
\* of the container fails, the export returns failure and no container file,
\* partial or complete, is at the output path.
C14_NoContainerOnFailure ==
    (export_pc = "returned" /\ export_fault \in {"texture_write", "container_write"}) =>
        /\ export_result = FALSE
        /\ output_path \notin DOMAIN output_files

\* C16: an exception while one material is processed, other than a failed
\* texture write or container write, does not end the export: the call does
\* not return failure because of it.
C16_MaterialErrorIsolated ==
    export_fault = "material" => ~(export_pc = "returned" /\ export_result = FALSE)

-------------------------------------------------------------------------------
(* Failures of the crop step *)

-------------------------------------------------------------------------------
(* Element types and arities of _add_accessor *)

ComponentTypeOf(dtype) ==
    CASE dtype = "int8" -> 5120
      [] dtype = "uint8" -> 5121
      [] dtype = "int16" -> 5122
      [] dtype = "uint16" -> 5123
      [] dtype = "uint32" -> 5125
      [] OTHER -> 5126

TypeStringOf(arity) ==
    CASE arity = 1 -> "SCALAR"
      [] arity = 2 -> "VEC2"
      [] arity = 3 -> "VEC3"
      [] arity = 4 -> "VEC4"
      [] arity = 9 -> "MAT3"
      [] arity = 16 -> "MAT4"

-------------------------------------------------------------------------------
(* Concurrent registrations *)

\* C18: when threads share the registry, whatever the interleaving of their
\* register_texture calls, the bytes of one content are written exactly once
\* and every call for that content returns the same filename.
C18_OneWriteUnderInterleaving ==
    \A c \in Contents :
        /\ writes[texture_hash(c)] <= 1
        /\ \A r1 \in returned : \A r2 \in returned :
              (r1[1] = c /\ r2[1] = c) => r1[2][1] = r2[2][1]

-------------------------------------------------------------------------------
(* Reuse of a generator *)

\* the accessors a primitive references
References(prim) == Len(prim.attributes) + (IF prim.indices # NoIndex THEN 1 ELSE 0)

RECURSIVE ReferenceCount(_)
ReferenceCount(prims) ==
    IF prims = <<>> THEN 0 ELSE References(Head(prims)) + ReferenceCount(Tail(prims))

\* the accessor indices a primitive references
ReferencedBy(prim) ==
    {prim.attributes[j][2] : j \in 1..Len(prim.attributes)}
    \cup (IF prim.indices # NoIndex THEN {prim.indices} ELSE {})

\* C19: the document a create_glb call emits holds the data of that call only,
\* as the document of a fresh generator would: its accessors are exactly the
\* ones its own primitives reference, numbered from 0, whatever earlier calls
\* on the same generator have appended.
C19_ReuseStartsEmpty ==
    pc = "done" =>
        /\ Len(gltf.accessors) = ReferenceCount(gltf.meshes[1].primitives)
        /\ \A i \in 1..Len(gltf.meshes[1].primitives) :
              ReferencedBy(gltf.meshes[1].primitives[i]) \subseteq
                  0..(ReferenceCount(gltf.meshes[1].primitives) - 1)

-------------------------------------------------------------------------------
(* The write cursor *)

\* byte i of the buffer (counted from 1) belongs to an appended item
InsideAnItem(i) ==
    \E v \in 1..Len(buffer_views) :
        buffer_views[v].byteOffset < i /\
        i <= buffer_views[v].byteOffset + buffer_views[v].byteLength

\* C20: after every append to the binary buffer, of an array or of embedded
\* texture bytes of any length, the write cursor (the buffer's length) is a
\* multiple of 4, and every byte outside the appended items is a zero byte.
C20_CursorRealigned ==
    /\ Len(buffer_data) % 4 = 0
    /\ \A i \in 1..Len(buffer_data) : ~InsideAnItem(i) => buffer_data[i] = 0

-------------------------------------------------------------------------------
(* The choice between rounding down and rounding up *)

\* the padded rectangle of the call that produced crop_out: (crop_width, crop_height)
CropLengths ==
    LET r == padded_rectangle(image_size, calculate_bounds(uv_data), pixel_padding)
    IN  <<r[3] - r[1], r[4] - r[2]>>

\* rounding down loses strictly less area than rounding up adds, and each rounded-down
\* axis keeps at least four fifths of the crop length
RoundsDown(cw, ch) ==
    /\ cw * ch - prev_power_of_2(cw) * prev_power_of_2(ch)
          < next_power_of_2(cw) * next_power_of_2(ch) - cw * ch
    /\ 5 * prev_power_of_2(cw) >= 4 * cw
    /\ 5 * prev_power_of_2(ch) >= 4 * ch

\* the dimensions the rule asks for, each raised to min_size
RuleDimensions(cw, ch) ==
    IF RoundsDown(cw, ch)
    THEN <<Max(prev_power_of_2(cw), min_size), Max(prev_power_of_2(ch), min_size)>>
    ELSE <<Max(next_power_of_2(cw), min_size), Max(next_power_of_2(ch), min_size)>>

\* C21: crop_texture takes the rounded-down power-of-two dimensions, for both
\* axes together, exactly when rounding down loses strictly less area than
\* rounding up wastes and each rounded-down axis keeps at least 80% of the crop
\* length; otherwise the rounded-up ones; each is then raised to min_size (the
\* returned image has these dimensions, cut to the image where they exceed it).
C21_RoundingChoice ==
    crop_pc = "cropped" =>
        LET d == RuleDimensions(CropLengths[1], CropLengths[2])
        IN  crop_out.size = <<Min(d[1], image_size[1]), Min(d[2], image_size[2])>>

\* the 516x516 rectangle of the 1024x1024 image is rounded down to 512x512
C21_Witness ==
    /\ crop_pc = "cropped"
    /\ CropLengths = <<516, 516>>
    /\ RoundsDown(516, 516)
    /\ crop_out.size = <<512, 512>>

-------------------------------------------------------------------------------
(* The pixel rectangle *)

\* C22: for every image, every UV bounds (also outside [0,1]), every pixel
\* padding and min_size, the rectangle crop_texture returns is inside the image
\* and not empty, 0 <= x0 < x1 <= w and 0 <= y0 < y1 <= h, and the cropped
\* image has exactly the rectangle's width and height.
C22_WindowInsideImage ==
    crop_pc \in {"cropped", "remapped"} =>
        LET b == crop_out.pixel_bounds
        IN  /\ 0 <= b[1] /\ b[1] < b[3] /\ b[3] <= image_size[1]
            /\ 0 <= b[2] /\ b[2] < b[4] /\ b[4] <= image_size[2]
            /\ crop_out.size = <<b[3] - b[1], b[4] - b[2]>>

\* UVs entirely to the right of the unit square on an image smaller than min_size: the
\* window is moved back to the image's edge
C22_Witness ==
    /\ crop_pc = "cropped"
    /\ calculate_bounds(uv_data)[1] > UVDen
    /\ image_size = <<8, 4>>
    /\ min_size = 16
    /\ crop_out.pixel_bounds = <<0, 0, 8, 4>>

-------------------------------------------------------------------------------
(* The bounding box of the UVs *)

\* lo and hi are the least and the greatest of the k-th coordinates of the UV pairs
Extremes(k, lo, hi) ==
    /\ \E i \in 1..Len(uv_data) : uv_data[i][k] = lo
    /\ \E i \in 1..Len(uv_data) : uv_data[i][k] = hi
    /\ \A i \in 1..Len(uv_data) : lo <= uv_data[i][k] /\ uv_data[i][k] <= hi

\* the bounds returned on axis k (1: U, 2: V) are the extremes of that axis, each moved
\* outward by padding times their distance when the padding is positive
AxisBounds(k) ==
    \E lo \in UVCoords, hi \in UVCoords :
        /\ Extremes(k, lo, hi)
        /\ LET move == IF uv_padding[1] > 0 THEN uv_padding[1] * (hi - lo) ELSE 0
           IN  /\ bounds_box[k] = lo * uv_padding[2] - move
               /\ bounds_box[k + 2] = hi * uv_padding[2] + move
               /\ bounds_box[k] <= lo * uv_padding[2]
               /\ bounds_box[k + 2] >= hi * uv_padding[2]

\* C23: calculate_bounds returns the tight box of the UV pairs (min <= max on
\* each axis); with a positive padding each bound is moved outward by padding
\* times the range of its own axis, so the padded box contains the tight one;
\* an input without UVs gives (0, 0, 1, 1).
C23_TightBoxAndPadding ==
    crop_pc = "bounded" =>
        IF Len(uv_data) = 0
        THEN bounds_box = <<0, 0, UVDen * uv_padding[2], UVDen * uv_padding[2]>>
        ELSE /\ AxisBounds(1)
             /\ AxisBounds(2)
             /\ bounds_box[1] <= bounds_box[3]
             /\ bounds_box[2] <= bounds_box[4]

\* U from 0.25 to 0.75 and V from 0 to 0.25 with a padding of 0.1: the box is
\* (0.2, -0.025, 0.8, 0.275), in 1/2560 units
C23_Witness ==
    /\ crop_pc = "bounded"
    /\ uv_padding = <<1, 10>>
    /\ uv_data = <<<<64, 0>>, <<192, 64>>>>
    /\ bounds_box = <<512, -64, 2048, 704>>

-------------------------------------------------------------------------------
(* min and max on accessors *)

\* the primitives of the mesh under construction, the one in progress included
PrimitivesBuilt == mesh_prims \o <<cur_prim>>

\* accessor index i describes a two-dimensional array of three columns
ThreeComponents(i) == appended[i + 1].ndim = 2 /\ appended[i + 1].shape1 = 3

\* C24: an accessor carries min and max exactly when it describes the 3-component
\* POSITION attribute; the accessors of NORMAL, of TEXCOORD_0 and of the indices
\* carry neither.
C24_MinMaxOnlyOnPosition ==
    \A p \in 1..Len(PrimitivesBuilt) :
        LET prim == PrimitivesBuilt[p]
        IN  /\ \A a \in 1..Len(prim.attributes) :
                  LET attr_name == prim.attributes[a][1]
                      idx == prim.attributes[a][2]
                  IN  accessors[idx + 1].minmax
                          <=> (attr_name = "POSITION" /\ ThreeComponents(idx))
            /\ prim.indices # NoIndex => ~accessors[prim.indices + 1].minmax

-------------------------------------------------------------------------------
(* process_texture_with_cropping *)

\* C25: process_texture_with_cropping returns the cropped texture with its
\* pixel bounds whenever cropping was attempted (enabled, bounds given), the
\* UVs do not span more than 0.9 of both axes, the bounds are not tiled and
\* the crop removes strictly more than 10% of the pixels; otherwise it returns
\* the original bytes with pixel bounds None.
C25_CroppedWhenWorthwhile ==
    crop_pc = "processed" =>
        LET b == calculate_bounds(uv_data)
            spans == (b[3] - b[1]) * 10 > 9 * UVDen /\ (b[4] - b[2]) * 10 > 9 * UVDen
            savings == calculate_texture_savings(image_size, crop_out.size)
            worthwhile == /\ crop_calls > 0
                          /\ ~spans
                          /\ ~check_if_tiled(b)
                          /\ (savings[1] - savings[2]) * 10 > savings[1]
        IN  processed = IF worthwhile THEN <<"cropped", TRUE>> ELSE <<"original", FALSE>>

-------------------------------------------------------------------------------
(* UVs and texture of an exported primitive *)

\* C26: after export_mesh_to_glb_with_texture_cropping has handled a primitive,
\* its TEXCOORD_0 is the remapped array exactly when the texture it references
\* is the cropped one; when a step after the UV remap fails and the exporter
\* falls back to the original texture, TEXCOORD_0 is the original array.
C26_RemappedIffCropped ==
    crop_pc = "exported" =>
        texcoord = IF material_texture = "cropped"
                   THEN remap_uv_coordinates(uv_data, image_size, crop_out.pixel_bounds)
                   ELSE AsArray(uv_data)

-------------------------------------------------------------------------------
(* A failed write of a texture file *)

\* the hash in a file name built by register_texture
HashOfFile(filename) == IF Len(filename) = 4 THEN filename[3] ELSE filename[2]

\* the (asset, hash) pairs that have an entry in an asset's registry
AssetEntries(sets) == {<<a, h>> \in (DOMAIN sets) \X Hashes : h \in DOMAIN sets[a]}

\* a call of register_texture in which writing the file failed
WriteFailed == write_failures' > write_failures

\* C27: when writing the texture file fails inside register_texture, neither
\* the global registry nor any asset's registry gains an entry, so the hash
\* stays unregistered and a later registration attempts the write again; and in
\* every reachable state each hash in the global registry has had its bytes
\* written.
C27_FailedWriteRegistersNothing ==
    /\ [][WriteFailed =>
            /\ texture_registry' = texture_registry
            /\ AssetEntries(asset_texture_sets') = AssetEntries(asset_texture_sets)
            /\ \E h \in Hashes : h \notin DOMAIN texture_registry']_vars
    /\ [](\A h \in DOMAIN texture_registry : writes[h] >= 1)

\* a write of a hash failed, leaving an empty file, and a later registration of
\* the same bytes wrote them and registered the hash
C27_Witness ==
    /\ write_failures >= 1
    /\ \E f \in DOMAIN files :
          /\ files[f] = <<>>
          /\ HashOfFile(f) \in DOMAIN texture_registry
          /\ writes[HashOfFile(f)] = 1

-------------------------------------------------------------------------------
(* The asset registries mirror the global registry *)

\* a call of register_texture that found the hash in the global registry and
\* gave asset a its first entry for hash h
SharedInto(a, h) ==
    /\ h \in DOMAIN texture_registry
    /\ <<a, h>> \notin AssetEntries(asset_texture_sets)
    /\ <<a, h>> \in AssetEntries(asset_texture_sets')

\* C30: after any sequence of register_texture calls every (hash, pair) entry
\* of an asset's registry is in the global registry with the same pair, and a
\* registration that hits the global registry under a new asset inserts the
\* cached pair into that asset's registry without writing to storage.
C30_AssetEntriesMirrorGlobal ==
    /\ [](\A a \in DOMAIN asset_texture_sets : \A h \in DOMAIN asset_texture_sets[a] :
              /\ h \in DOMAIN texture_registry
              /\ asset_texture_sets[a][h] = texture_registry[h])
    /\ [][\A a \in AssetNames, h \in Hashes :
              SharedInto(a, h) =>
                  /\ asset_texture_sets'[a][h] = texture_registry[h]
                  /\ texture_registry' = texture_registry
                  /\ files' = files
                  /\ writes' = writes]_vars

\* the same bytes registered under two assets: both registries hold the pair
\* of the first registration and the bytes were written once
C30_Witness ==
    \E h \in DOMAIN texture_registry :
        /\ writes[h] = 1
        /\ \E a, b \in DOMAIN asset_texture_sets :
              /\ a # b
              /\ h \in DOMAIN asset_texture_sets[a]
              /\ h \in DOMAIN asset_texture_sets[b]
              /\ asset_texture_sets[a][h] = texture_registry[h]
              /\ asset_texture_sets[b][h] = texture_registry[h]

-------------------------------------------------------------------------------
(* Material references *)

\* the primitives of the emitted document
EmittedPrimitives == IF gltf.meshes = <<>> THEN <<>> ELSE gltf.meshes[1].primitives

\* C28: in every emitted container the material index of a primitive, when
\* present, satisfies 0 <= material < number of materials; no primitive
\* carries a material index when the materials list is empty or absent.
C28_MaterialIndexInRange ==
    pc = "done" =>
        \A p \in 1..Len(EmittedPrimitives) :
            LET material == EmittedPrimitives[p].material
            IN  material # NoMaterial => 0 <= material /\ material < gltf.materials

-------------------------------------------------------------------------------
(* Accessors, buffer views and the buffer of an emitted document *)

\* the byte ranges of buffer views v and w share a byte
Overlap(v, w) ==
    /\ v.byteOffset < w.byteOffset + w.byteLength
    /\ w.byteOffset < v.byteOffset + v.byteLength

\* C29: in every emitted document each accessor references an existing
\* bufferView, every bufferView lies inside the declared buffer (byteOffset +
\* byteLength <= buffers[0].byteLength), no two bufferViews overlap, and
\* buffers[0].byteLength is at most the length of the binary chunk and less
\* than 4 bytes below it.
C29_ViewsInsideBuffer ==
    pc = "done" =>
        LET views == gltf.bufferViews
            byteLength == gltf.buffers[1].byteLength
            json_length == unpack_U32(glb, 12)
            bin_length == unpack_U32(glb, 20 + json_length)
        IN  /\ \A a \in 1..Len(gltf.accessors) :
                  /\ 0 <= gltf.accessors[a].bufferView
                  /\ gltf.accessors[a].bufferView < Len(views)
            /\ \A v \in 1..Len(views) :
                  /\ 0 <= views[v].byteOffset
                  /\ views[v].byteOffset + views[v].byteLength <= byteLength
            /\ \A v, w \in 1..Len(views) : v # w => ~Overlap(views[v], views[w])
            /\ byteLength <= bin_length
            /\ bin_length - byteLength < 4
            /\ Len(glb) = 20 + json_length + 8 + bin_length

\* a document with two buffer views, an accessor, and a buffer whose length is
\* not a multiple of 4, so that the binary chunk is longer than the buffer
C29_Witness ==
    /\ pc = "done"
    /\ Len(gltf.bufferViews) = 2
    /\ Len(gltf.accessors) >= 1
    /\ gltf.bufferViews[2].byteOffset > 0
    /\ gltf.buffers[1].byteLength % 4 # 0
    /\ unpack_U32(glb, 20 + unpack_U32(glb, 12)) > gltf.buffers[1].byteLength

====
